---- MODULE Spec2Model ----
(***************************************************************************)
(* agentrem: the reminder store (core.ts: coreAdd, coreCheck, coreGc) and  *)
(* the watch loop (watch.ts: shouldNotify, markNotified, executeOnFire,    *)
(* runCheckCycle, startWatch).                                             *)
(*                                                                         *)
(* Conventions.  A nullable column is a set: {} is SQL NULL, {v} a value.  *)
(* A reminder's content is modelled by its length.  Wall-clock instants    *)
(* are milliseconds; the store's ISO strings (second resolution, totally   *)
(* ordered as strings) are the integer number of seconds, dtToIso.         *)
(***************************************************************************)
EXTENDS Integers, Sequences, FiniteSets, TLC

VARIABLES
  reminders,   \* table reminders: id -> row
  history,     \* table history: sequence of entries, in insertion order
  nextId,      \* the next fresh reminder id
  clock,       \* wall clock, ms
  result,      \* what the last coreCheck returned, with the options it ran with
  pre,         \* the two tables as they were when the last operation started
  state,       \* WatchState: lastNotified, lastGc
  wopts,       \* the WatchOptions startWatch was called with
  loop,        \* startWatch: "idle", "running", "resolved", "rejected", "crashed"
  tick,        \* what the last runCheckCycle did: outcome, notified, event trace
  dispatched,  \* every notification delivered so far: <<id, now>>
  cw           \* checkWatch: the promise, its two timers and its listeners

vars == <<reminders, history, nextId, clock, result, pre, state, wopts, loop,
          tick, dispatched, cw>>

storeVars == <<reminders, history, nextId>>
watchVars == <<state, wopts, loop, tick, dispatched, cw>>

----------------------------------------------------------------------------
(* Bounds of the model *)

MaxReminders == 3      \* rows inserted before an evaluation
MaxWatchRows == 2      \* rows in the store the watch loop polls
MaxTicks == 2          \* runCheckCycle calls of one watch loop
MaxPreviewRows == 2    \* rows in the store a preview is taken of
MaxPasses == 2         \* times the clock is advanced before a preview
MaxOverdueRows == 2    \* overdue rows in the store an escalating evaluation sees
MaxLifeRows == 2       \* rows added in a run of adds, completions and evaluations
MaxEvals == 3          \* evaluations in such a run
MaxCompletes == 1      \* completions by the agent in such a run
MaxRecurAdds == 2      \* recurring reminders added
MaxRecurRows == 4      \* rows in the store, successors included
MaxWaitRows == 2       \* rows in the store of a blocking wait
MaxPolls == 3          \* interval polls of a blocking wait
MaxSnoozeRows == 1     \* rows in a run of snoozes and evaluations
MaxSnoozeSteps == 4    \* snoozes, completions, evaluations and clock advances in such a run
MaxStoreRows == 1      \* rows in a run of every store operation
MaxStoreSteps == 3     \* operations after the adds in such a run
MaxGatherRows == 2     \* rows in a run of retirements and evaluations
MaxGatherSteps == 2    \* operations after the adds in such a run
MaxRetryRows == 2      \* rows in the store of a crashed evaluation
MaxMaintRows == 2      \* rows in the store of a loop that runs maintenance
MaxMaintTicks == 3     \* runCheckCycle calls of such a loop
MaxChainRows == 3      \* rows of a run over recurrence chains, successors included
MaxChainSteps == 3     \* completions and evaluations in such a run
MaxRaceRows == 2       \* rows in the store two processes evaluate
MaxRaceSteps == 3      \* evaluations and ticks of the two processes

----------------------------------------------------------------------------
(* Values *)

NULL == {}
Some(v) == {v}
Val(o) == CHOOSE v \in o : TRUE

\* SQL: col <= ? is false on NULL
Leq(col, t) == \E v \in col : v <= t

VALID_TRIGGERS == {"time", "keyword", "condition", "session", "heartbeat", "manual"}

HOUR_MS == 3600 * 1000

\* dtToIso: a Date (ms) formatted to the second; the milliseconds are dropped
dtToIso(ms) == ms \div 1000

\* Body applied to the value of e, which is computed once
Bind(e, Body(_)) == CHOOSE y \in {Body(x) : x \in {e}} : TRUE

Min(a, b) == IF a <= b THEN a ELSE b
Max(a, b) == IF a >= b THEN a ELSE b

\* String.prototype.slice(0, k) on a string of length len, as a length
sliceLen(len, k) == IF k >= 0 THEN Min(k, len) ELSE Max(len + k, 0)

\* truncate(s, maxLen).length
truncate(len, maxLen) ==
  IF len = 0 THEN 0
  ELSE IF len <= maxLen THEN len
  ELSE sliceLen(len, maxLen - 1) + 1

\* The order in which a SELECT without ORDER BY returns the rows S.  SQLite
\* walks the table or an index with equal keys, both in rowid order (ids are
\* allocated in rowid order); a walk of idx_rem_due is in trigger_at order.
RECURSIVE Rows(_, _, _)
Rows(S, rs, byDue) ==
  IF S = {} THEN <<>>
  ELSE LET before(a, b) ==
             IF byDue /\ rs[a].trigger_at # rs[b].trigger_at
             THEN Val(rs[a].trigger_at) < Val(rs[b].trigger_at)
             ELSE a <= b
           first == CHOOSE a \in S : \A b \in S : before(a, b)
       IN <<first>> \o Rows(S \ {first}, rs, byDue)

----------------------------------------------------------------------------
(* db.ts *)

\* the text a caller gives for a reminder id: the whole id of reminder `of`,
\* or only its leading characters (ids are shown cut to 8 characters)
IdText(of, whole) == [of |-> of, whole |-> whole]

\* findReminder(db, rid): the exact match, else the only row whose id starts
\* with rid, else null
findReminder(rs, rid) == IF rid.of \in DOMAIN rs THEN Some(rid.of) ELSE NULL

recordHistory(h, reminderId, action, oldData, newData, source) ==
  Append(h, [reminder_id |-> reminderId, action |-> action,
             old_data |-> oldData, new_data |-> newData, source |-> source])

\* INSERT INTO reminders(...) with the column defaults of createDb
NewRow(id, o, nowIso) ==
  [id |-> id, content |-> o.content, trigger_type |-> o.trigger,
   trigger_at |-> o.due, trigger_config |-> o.config, priority |-> o.priority,
   status |-> "active", snoozed_until |-> NULL, decay_at |-> o.decay,
   fire_count |-> 0, last_fired |-> NULL, max_fires |-> o.maxFires,
   recur_rule |-> o.recur, recur_parent_id |-> o.recurParent,
   depends_on |-> o.dependsOn, source |-> o.source, agent |-> o.agent,
   created_at |-> nowIso, updated_at |-> nowIso, completed_at |-> NULL]

----------------------------------------------------------------------------
(* core.ts: coreAdd *)

\* the checks coreAdd makes before it inserts; it throws when one fails
AddValid(rs, o) ==
  /\ o.priority >= 1 /\ o.priority <= 5
  /\ o.trigger \in VALID_TRIGGERS
  /\ (o.trigger = "time" => o.due # NULL)
  /\ (o.trigger \in {"keyword", "condition"} <=> o.config # NULL)
  /\ \A d \in o.dependsOn : findReminder(rs, d) # NULL

coreAdd(o) ==
  /\ AddValid(reminders, o)
  /\ LET nowIso == dtToIso(clock)
         rem == NewRow(nextId, o, nowIso)
     IN /\ reminders' = (nextId :> rem) @@ reminders
        /\ history' = recordHistory(history, rem.id, "created", NULL, Some(rem), o.source)
        /\ nextId' = nextId + 1

----------------------------------------------------------------------------
(* core.ts: coreCheck *)

\* opts.agent || 'main'
AgentOf(o) == IF o.agent = NULL THEN "main" ELSE Val(o.agent)

\* (opts.budget || 800) * 4: tokens -> chars; 0 is falsy and takes the default
BudgetOf(o) == (IF o.budget = NULL \/ o.budget = Some(0) THEN 800 ELSE Val(o.budget)) * 4

\* variant: the type filter is not looked at
HasType_Any(o, k) == o.type = NULL \/ Val(o.type) # {}

\* !typesFilter || typesFilter.has(k)
HasType(o, k) == o.type = NULL \/ k \in Val(o.type)

\* variant: the reactivated row keeps its snooze date
Reactivate_KeepsUntil(rs, nowIso, agent) ==
  [id \in DOMAIN rs |->
     IF rs[id].status = "snoozed" /\ Leq(rs[id].snoozed_until, nowIso) /\ rs[id].agent = agent
     THEN [rs[id] EXCEPT !.status = "active", !.updated_at = nowIso]
     ELSE rs[id]]

\* step 1: UPDATE ... SET status='active', snoozed_until=NULL WHERE status='snoozed' ...
Reactivate(rs, nowIso, agent) ==
  [id \in DOMAIN rs |->
     IF rs[id].status = "snoozed" /\ Leq(rs[id].snoozed_until, nowIso) /\ rs[id].agent = agent
     THEN [rs[id] EXCEPT !.status = "active", !.snoozed_until = NULL, !.updated_at = nowIso]
     ELSE rs[id]]

\* variant: a reminder decays only after its decay date
ExpiredIds_Strict(rs, nowIso, agent) ==
  {id \in DOMAIN rs : /\ rs[id].decay_at # NULL /\ Val(rs[id].decay_at) < nowIso
                      /\ rs[id].status = "active" /\ rs[id].agent = agent}

\* step 2: SELECT id ... WHERE decay_at <= ? AND status='active' AND agent=?
ExpiredIds(rs, nowIso, agent) ==
  {id \in DOMAIN rs : Leq(rs[id].decay_at, nowIso) /\ rs[id].status = "active"
                      /\ rs[id].agent = agent}

RECURSIVE Expire(_, _, _, _)
Expire(rows, rs, h, nowIso) ==
  IF rows = <<>> THEN [reminders |-> rs, history |-> h]
  ELSE LET id == Head(rows)
           rem == rs[id]
       IN Expire(Tail(rows),
                 [rs EXCEPT ![id].status = "expired", ![id].updated_at = nowIso],
                 recordHistory(h, id, "expired", Some(rem), NULL, "system"),
                 nowIso)

\* step 3: one UPDATE ... SET priority=to WHERE priority=from AND trigger_type='time'
\*         AND trigger_at <= cutoff AND status='active' AND agent=?
\* variant: the cutoff itself is not yet overdue enough
EscalateRule_Strict(rs, from, to, cutoff, nowIso, agent) ==
  [id \in DOMAIN rs |->
     IF /\ rs[id].priority = from /\ rs[id].trigger_type = "time"
        /\ rs[id].trigger_at # NULL /\ Val(rs[id].trigger_at) < cutoff
        /\ rs[id].status = "active" /\ rs[id].agent = agent
     THEN [rs[id] EXCEPT !.priority = to, !.updated_at = nowIso]
     ELSE rs[id]]

EscalateRule(rs, from, to, cutoff, nowIso, agent) ==
  [id \in DOMAIN rs |->
     IF /\ rs[id].priority = from /\ rs[id].trigger_type = "time"
        /\ Leq(rs[id].trigger_at, cutoff) /\ rs[id].status = "active"
        /\ rs[id].agent = agent
     THEN [rs[id] EXCEPT !.priority = to, !.updated_at = nowIso]
     ELSE rs[id]]

\* variant: the 2 -> 1 rule runs before the 3 -> 2 rule
Escalate_HighFirst(rs, now, nowIso, agent) ==
  LET cutoff48h == dtToIso(now - 48 * HOUR_MS)
      cutoff24h == dtToIso(now - 24 * HOUR_MS)
  IN EscalateRule(EscalateRule(rs, 2, 1, cutoff24h, nowIso, agent),
                  3, 2, cutoff48h, nowIso, agent)

Escalate(rs, now, nowIso, agent) ==
  LET cutoff48h == dtToIso(now - 48 * HOUR_MS)
      cutoff24h == dtToIso(now - 24 * HOUR_MS)
  IN EscalateRule(EscalateRule(rs, 3, 2, cutoff48h, nowIso, agent),
                  2, 1, cutoff24h, nowIso, agent)

\* step 4
completedIds(rs) == {id \in DOMAIN rs : rs[id].status = "completed"}

\* variant: a dependency that exists counts as done, whatever its status
checkDependency_Existing(rs, rem) ==
  IF rem.depends_on = NULL THEN TRUE
  ELSE /\ Val(rem.depends_on).whole
       /\ Val(rem.depends_on).of \in DOMAIN rs

\* completedIds.has(rem.depends_on): the stored text must be a whole id
checkDependency(rs, rem) ==
  IF rem.depends_on = NULL THEN TRUE
  ELSE /\ Val(rem.depends_on).whole
       /\ Val(rem.depends_on).of \in completedIds(rs)

\* SELECT * ... WHERE trigger_type=k AND status='active' AND agent=?
\* variant: the agent is not part of the query
ActiveOfKind_AnyAgent(rs, k, agent) ==
  {id \in DOMAIN rs : rs[id].trigger_type = k /\ rs[id].status = "active"}

ActiveOfKind(rs, k, agent) ==
  {id \in DOMAIN rs : rs[id].trigger_type = k /\ rs[id].status = "active"
                      /\ rs[id].agent = agent}

toLowerCase(kw) == IF kw = "A" THEN "a" ELSE kw

\* new RegExp(kw, 'i') throws on a malformed pattern
RegExpThrows(kw) == kw = "("

\* text is the set of the lower-case keywords that occur in opts.text
KeywordMatch(rem, text) ==
  LET config == IF rem.trigger_config = NULL
                THEN [keywords |-> NULL, match |-> NULL, check |-> NULL, expect |-> NULL]
                ELSE Val(rem.trigger_config)
      keywords == IF config.keywords = NULL THEN <<>> ELSE Val(config.keywords)
      matchMode == IF config.match = NULL THEN "any" ELSE Val(config.match)
      includes(i) == toLowerCase(keywords[i]) \in text
  IN CASE matchMode = "any" -> \E i \in DOMAIN keywords : includes(i)
       [] matchMode = "all" -> \A i \in DOMAIN keywords : includes(i)
       [] matchMode = "regex" ->
            \E i \in DOMAIN keywords : ~RegExpThrows(keywords[i]) /\ includes(i)
       [] OTHER -> FALSE

\* cond[id]: what the check command of reminder id does in this evaluation:
\* "match" (prints the expected string), "nomatch", "fail" (non-zero exit, timeout)
ConditionMatch(rem, cond) == cond[rem.id] = "match"

Gather(rs, o, nowIso, byDue, cond) ==
  LET agent == AgentOf(o)
      dep(S) == {id \in S : checkDependency(rs, rs[id])}
      timeRows == IF HasType(o, "time")
                  THEN dep({id \in ActiveOfKind(rs, "time", agent) :
                              Leq(rs[id].trigger_at, nowIso)})
                  ELSE {}
      kwRows == IF HasType(o, "keyword") /\ o.text # NULL
                THEN {id \in dep(ActiveOfKind(rs, "keyword", agent)) :
                        KeywordMatch(rs[id], Val(o.text))}
                ELSE {}
      condRows == IF HasType(o, "condition")
                  THEN {id \in dep(ActiveOfKind(rs, "condition", agent)) :
                          ConditionMatch(rs[id], cond)}
                  ELSE {}
      sessRows == IF HasType(o, "session")
                  THEN dep(ActiveOfKind(rs, "session", agent)) ELSE {}
      hbRows == IF HasType(o, "heartbeat")
                THEN dep(ActiveOfKind(rs, "heartbeat", agent)) ELSE {}
      ids == Rows(timeRows, rs, byDue) \o Rows(kwRows, rs, FALSE)
             \o Rows(condRows, rs, FALSE) \o Rows(sessRows, rs, FALSE)
             \o Rows(hbRows, rs, FALSE)
  IN [i \in DOMAIN ids |-> rs[ids[i]]]

\* triggered.sort((a, b) => a.priority - b.priority): stable insertion
RECURSIVE InsertByPriority(_, _)
InsertByPriority(rem, sorted) ==
  IF sorted = <<>> THEN <<rem>>
  ELSE IF Head(sorted).priority <= rem.priority
       THEN <<Head(sorted)>> \o InsertByPriority(rem, Tail(sorted))
       ELSE <<rem>> \o sorted

RECURSIVE SortByPriority(_)
SortByPriority(rows) ==
  IF rows = <<>> THEN <<>>
  ELSE InsertByPriority(rows[Len(rows)], SortByPriority(SubSeq(rows, 1, Len(rows) - 1)))

\* deduplicate by id, keeping the first
RECURSIVE Dedupe(_, _)
Dedupe(rows, seen) ==
  IF rows = <<>> THEN <<>>
  ELSE IF Head(rows).id \in seen THEN Dedupe(Tail(rows), seen)
       ELSE <<Head(rows)>> \o Dedupe(Tail(rows), seen \cup {Head(rows).id})

charLimits(p) == CASE p = 1 -> 200 [] p = 2 -> 100 [] p = 3 -> 60 [] OTHER -> 0

\* used + entrySize <= budget * 0.6, resp. budget * 0.85 (exact for integers)
Within60(total, budget) == 10 * total <= 6 * budget
Within85(total, budget) == 100 * total <= 85 * budget

NoOverflow == [p \in 1..5 |-> 0]

\* variant: priority 1 is held to the 60% threshold like priority 2
Decide_BudgetedP1(p, total, budget) ==
  CASE p = 5 -> "skip"
    [] p = 4 -> "overflow"
    [] p \in {1, 2} -> IF Within60(total, budget) THEN "include" ELSE "overflow"
    [] p = 3 -> IF Within85(total, budget) THEN "include" ELSE "overflow"
    [] OTHER -> "skip"

\* variant: priority 5 falls into the priority-4 branch (p >= 4)
Decide_CountsP5(p, total, budget) ==
  CASE p >= 4 -> "overflow"
    [] p = 1 -> "include"
    [] p = 2 -> IF Within60(total, budget) THEN "include" ELSE "overflow"
    [] p = 3 -> IF Within85(total, budget) THEN "include" ELSE "overflow"
    [] OTHER -> "skip"

\* variant: priority 4 is packed under the 85% threshold like priority 3
Decide_BudgetedP4(p, total, budget) ==
  CASE p = 5 -> "skip"
    [] p = 1 -> "include"
    [] p = 2 -> IF Within60(total, budget) THEN "include" ELSE "overflow"
    [] p \in {3, 4} -> IF Within85(total, budget) THEN "include" ELSE "overflow"
    [] OTHER -> "skip"

\* variant: a priority-3 candidate that does not fit is passed over uncounted
Decide_SilentP3(p, total, budget) ==
  CASE p = 5 -> "skip"
    [] p = 4 -> "overflow"
    [] p = 1 -> "include"
    [] p = 2 -> IF Within60(total, budget) THEN "include" ELSE "overflow"
    [] p = 3 -> IF Within85(total, budget) THEN "include" ELSE "skip"
    [] OTHER -> "skip"

\* the branch the budget loop takes for a candidate of priority p whose
\* inclusion would bring the running total to `total`
Decide(p, total, budget) ==
  CASE p = 5 -> "skip"
    [] p = 4 -> "overflow"
    [] p = 1 -> "include"
    [] p = 2 -> IF Within60(total, budget) THEN "include" ELSE "overflow"
    [] p = 3 -> IF Within85(total, budget) THEN "include" ELSE "overflow"
    [] OTHER -> "skip"

\* the budget loop; acc.totals records `used` right after each inclusion
RECURSIVE Allocate(_, _, _)
Allocate(deduped, budget, acc) ==
  IF deduped = <<>> THEN acc
  ELSE
    LET rem == Head(deduped)
        p == rem.priority
        entrySize == truncate(rem.content, charLimits(p)) + 30
        take == [acc EXCEPT !.included = Append(@, rem),
                            !.used = @ + entrySize,
                            !.totals = Append(@, acc.used + entrySize)]
        over == [acc EXCEPT !.overflowCounts[p] = @ + 1]
        d == Decide(p, acc.used + entrySize, budget)
        next == CASE d = "include" -> take
                  [] d = "overflow" -> over
                  [] OTHER -> acc
    IN Allocate(Tail(deduped), budget, next)

\* variant: the cap is reached one inclusion late
capReached_Late(rem, newFire) == \E m \in rem.max_fires : m # 0 /\ newFire > m

\* rem.max_fires && newFire >= rem.max_fires
capReached(rem, newFire) == \E m \in rem.max_fires : m # 0 /\ newFire >= m

\* variant: auto-completion at the cap schedules the next occurrence
RECURSIVE FireCounts_Reschedules(_, _, _, _)
FireCounts_Reschedules(included, rs, h, nowIso) ==
  IF included = <<>> THEN [reminders |-> rs, history |-> h]
  ELSE
    LET rem == Head(included)
        newFire == rem.fire_count + 1
        rs1 == [rs EXCEPT ![rem.id].fire_count = newFire,
                          ![rem.id].last_fired = Some(nowIso),
                          ![rem.id].updated_at = nowIso]
        capped == capReached(rem, newFire)
        fresh == Max(rem.id, CHOOSE m \in DOMAIN rs : \A id \in DOMAIN rs : id <= m) + 1
        rs2 == IF capped
               THEN [rs1 EXCEPT ![rem.id].status = "completed",
                                ![rem.id].completed_at = Some(nowIso),
                                ![rem.id].updated_at = nowIso]
               ELSE rs1
        rs3 == IF capped /\ rem.recur_rule # NULL
               THEN (fresh :> [rem EXCEPT !.id = fresh,
                                          !.recur_parent_id = Some(rem.id)]) @@ rs2
               ELSE rs2
        h2 == IF capped
              THEN recordHistory(h, rem.id, "completed", Some(rem), Some(rs2[rem.id]), "system")
              ELSE h
    IN FireCounts_Reschedules(Tail(included), rs3, h2, nowIso)

\* the fire-count loop
RECURSIVE FireCounts(_, _, _, _)
FireCounts(included, rs, h, nowIso) ==
  IF included = <<>> THEN [reminders |-> rs, history |-> h]
  ELSE
    LET rem == Head(included)
        newFire == rem.fire_count + 1
        rs1 == [rs EXCEPT ![rem.id].fire_count = newFire,
                          ![rem.id].last_fired = Some(nowIso),
                          ![rem.id].updated_at = nowIso]
        capped == capReached(rem, newFire)
        rs2 == IF capped
               THEN [rs1 EXCEPT ![rem.id].status = "completed",
                                ![rem.id].completed_at = Some(nowIso),
                                ![rem.id].updated_at = nowIso]
               ELSE rs1
        h2 == IF capped
              THEN recordHistory(h, rem.id, "completed", Some(rem), Some(rs2[rem.id]), "system")
              ELSE h
    IN FireCounts(Tail(included), rs2, h2, nowIso)

\* coreCheck(db, opts) at wall-clock time now.  byDue: the time query walks
\* idx_rem_due; cond: the outcome of each condition command.
coreCheck(rs, h, o, now, byDue, cond) ==
  LET nowIso == dtToIso(now)
      agent == AgentOf(o)
      budget == BudgetOf(o)
      rs1 == Reactivate(rs, nowIso, agent)
      ex == Expire(Rows(ExpiredIds(rs1, nowIso, agent), rs1, FALSE), rs1, h, nowIso)
      rs3 == IF o.escalate THEN Escalate(ex.reminders, now, nowIso, agent) ELSE ex.reminders
      triggered == Gather(rs3, o, nowIso, byDue, cond)
      deduped == Dedupe(SortByPriority(triggered), {})
      alloc == Allocate(deduped, budget,
                        [used |-> 0, included |-> <<>>, totals |-> <<>>,
                         overflowCounts |-> NoOverflow])
      fired == IF o.dryRun THEN [reminders |-> rs3, history |-> ex.history]
               ELSE FireCounts(alloc.included, rs3, ex.history, nowIso)
  IN [reminders |-> fired.reminders, history |-> fired.history,
      included |-> alloc.included, overflowCounts |-> alloc.overflowCounts,
      totalTriggered |-> Len(deduped), totals |-> alloc.totals,
      candidates |-> deduped]

\* coreCheck stopped by a crash: no transaction spans its statements, so the
\* store keeps what the statements before the crash wrote.  at names the last
\* thing done: "reactivated" (step 1), "expired" (step 2), "escalated"
\* (step 3), "fired" (the fire-count statements of the first included
\* reminder), "end" (every statement, nothing returned)
coreCheckCrashed(rs, h, o, now, byDue, cond, at) ==
  LET nowIso == dtToIso(now)
      agent == AgentOf(o)
      rs1 == Reactivate(rs, nowIso, agent)
      ex == Expire(Rows(ExpiredIds(rs1, nowIso, agent), rs1, FALSE), rs1, h, nowIso)
      rs3 == IF o.escalate THEN Escalate(ex.reminders, now, nowIso, agent) ELSE ex.reminders
      alloc == Allocate(Dedupe(SortByPriority(Gather(rs3, o, nowIso, byDue, cond)), {}),
                        BudgetOf(o),
                        [used |-> 0, included |-> <<>>, totals |-> <<>>,
                         overflowCounts |-> NoOverflow])
  IN CASE at = "reactivated" -> [reminders |-> rs1, history |-> h]
       [] at = "expired" -> [reminders |-> ex.reminders, history |-> ex.history]
       [] at = "escalated" -> [reminders |-> rs3, history |-> ex.history]
       [] at = "fired" ->
            IF o.dryRun THEN [reminders |-> rs3, history |-> ex.history]
            ELSE FireCounts(SubSeq(alloc.included, 1, Min(1, Len(alloc.included))),
                            rs3, ex.history, nowIso)
       [] OTHER ->
            IF o.dryRun THEN [reminders |-> rs3, history |-> ex.history]
            ELSE FireCounts(alloc.included, rs3, ex.history, nowIso)

----------------------------------------------------------------------------
(* core.ts: coreGc *)

DAY_S == 24 * 3600

\* variant: the SELECT has no status condition
coreGc_AnyStatus(rs, h, now, olderThan, dryRun, fault) ==
  LET cutoffIso == dtToIso(now) - olderThan * DAY_S
      rows == {id \in DOMAIN rs : rs[id].updated_at <= cutoffIso}
      kept == DOMAIN rs \ rows
      keptHistory == SelectSeq(h, LAMBDA e : e.reminder_id \notin rows)
  IN IF fault = "select"
     THEN [reminders |-> rs, history |-> h, count |-> 0, threw |-> TRUE]
     ELSE IF rows = {} \/ dryRun
     THEN [reminders |-> rs, history |-> h, count |-> Cardinality(rows), threw |-> FALSE]
     ELSE [reminders |-> [id \in kept |-> rs[id]], history |-> keptHistory,
           count |-> Cardinality(rows), threw |-> fault = "vacuum"]

\* coreGc(db, olderThan, dryRun).  fault: "none"; "select" (the first
\* statement throws); "vacuum" (VACUUM throws, after the two DELETEs)
coreGc(rs, h, now, olderThan, dryRun, fault) ==
  LET cutoffIso == dtToIso(now) - olderThan * DAY_S
      rows == {id \in DOMAIN rs :
                 /\ rs[id].status \in {"completed", "expired", "deleted"}
                 /\ rs[id].updated_at <= cutoffIso}
      kept == DOMAIN rs \ rows
      keptHistory == SelectSeq(h, LAMBDA e : e.reminder_id \notin rows)
  IN IF fault = "select"
     THEN [reminders |-> rs, history |-> h, count |-> 0, threw |-> TRUE]
     ELSE IF rows = {} \/ dryRun
     THEN [reminders |-> rs, history |-> h, count |-> Cardinality(rows), threw |-> FALSE]
     ELSE [reminders |-> [id \in kept |-> rs[id]], history |-> keptHistory,
           count |-> Cardinality(rows), threw |-> fault = "vacuum"]

----------------------------------------------------------------------------
(* core.ts: coreComplete *)

\* parseRecur: ^(\d+)([dwm])$
RecurRule(interval, unit) == [interval |-> interval, unit |-> unit]

\* variant: a month is 31 days
nextRecurrence_LongMonth(triggerAt, rule, nowIso) ==
  LET base == IF triggerAt # NULL THEN Val(triggerAt) ELSE nowIso
      interval == IF rule.interval = 0 THEN 1 ELSE rule.interval
  IN CASE rule.unit = "d" -> base + interval * DAY_S
       [] rule.unit = "w" -> base + interval * 7 * DAY_S
       [] rule.unit = "m" -> base + interval * 31 * DAY_S
       [] OTHER -> base + interval * DAY_S

\* nextRecurrence(triggerAt, rule): setDate(getDate() + n) moves the local
\* wall-clock time by whole days; rule.interval || 1
nextRecurrence(triggerAt, rule, nowIso) ==
  LET base == IF triggerAt # NULL THEN Val(triggerAt) ELSE nowIso
      interval == IF rule.interval = 0 THEN 1 ELSE rule.interval
  IN CASE rule.unit = "d" -> base + interval * DAY_S
       [] rule.unit = "w" -> base + interval * 7 * DAY_S
       [] rule.unit = "m" -> base + interval * 30 * DAY_S
       [] OTHER -> base + interval * DAY_S

\* variant: the successor points at the occurrence it was made from
recurParent_Nested(rem) == Some(rem.id)

\* rem.recur_parent_id || rem.id
recurParent(rem) ==
  IF rem.recur_parent_id # NULL THEN rem.recur_parent_id ELSE Some(rem.id)

\* coreComplete(db, id): throws when findReminder finds nothing
coreComplete(rid) ==
  /\ findReminder(reminders, rid) # NULL
  /\ LET rem == reminders[Val(findReminder(reminders, rid))]
         nowIso == dtToIso(clock)
         recurs == rem.recur_rule # NULL
         nextRem ==
           NewRow(nextId,
                  [content |-> rem.content, trigger |-> rem.trigger_type,
                   due |-> Some(nextRecurrence(rem.trigger_at, Val(rem.recur_rule), nowIso)),
                   config |-> rem.trigger_config, priority |-> rem.priority,
                   decay |-> rem.decay_at, maxFires |-> rem.max_fires,
                   recur |-> rem.recur_rule, recurParent |-> recurParent(rem),
                   dependsOn |-> rem.depends_on, source |-> rem.source,
                   agent |-> rem.agent],
                  nowIso)
         rs1 == IF recurs THEN (nextId :> nextRem) @@ reminders ELSE reminders
         h1 == IF recurs
               THEN recordHistory(history, nextRem.id, "created", NULL, Some(nextRem),
                                  "system")
               ELSE history
         newData == [rem EXCEPT !.status = "completed", !.completed_at = Some(nowIso),
                                !.updated_at = nowIso]
     IN /\ reminders' = [rs1 EXCEPT ![rem.id] = newData]
        /\ history' = recordHistory(h1, rem.id, "completed", Some(rem), Some(newData),
                                    "agent")
        /\ nextId' = IF recurs THEN nextId + 1 ELSE nextId

----------------------------------------------------------------------------
(* core.ts: coreSnooze, coreEdit, coreDelete, coreUndo *)

\* coreSnooze(db, id, until): whatever the status of the reminder is
coreSnooze(rid, untilIso) ==
  /\ findReminder(reminders, rid) # NULL
  /\ LET rem == reminders[Val(findReminder(reminders, rid))]
         newData == [rem EXCEPT !.status = "snoozed",
                                !.snoozed_until = Some(untilIso),
                                !.updated_at = dtToIso(clock)]
     IN /\ reminders' = [reminders EXCEPT ![rem.id] = newData]
        /\ history' = recordHistory(history, rem.id, "snoozed", Some(rem),
                                    Some(newData), "agent")
        /\ nextId' = nextId

\* EditOptions: the columns an edit can give; NULL is `undefined`
EditOptions(priority, due, decay, maxFires, agent) ==
  [priority |-> priority, due |-> due, decay |-> decay, maxFires |-> maxFires,
   agent |-> agent]

\* coreEdit(db, id, opts): the given columns are overwritten
coreEdit(rid, o) ==
  /\ findReminder(reminders, rid) # NULL
  /\ \A p \in o.priority : p >= 1 /\ p <= 5
  /\ o # EditOptions(NULL, NULL, NULL, NULL, NULL)
  /\ LET rem == reminders[Val(findReminder(reminders, rid))]
         newData == [rem EXCEPT
                       !.priority = IF o.priority = NULL THEN @ ELSE Val(o.priority),
                       !.trigger_at = IF o.due = NULL THEN @ ELSE o.due,
                       !.decay_at = IF o.decay = NULL THEN @ ELSE o.decay,
                       !.max_fires = IF o.maxFires = NULL THEN @ ELSE o.maxFires,
                       !.agent = IF o.agent = NULL THEN @ ELSE Val(o.agent),
                       !.updated_at = dtToIso(clock)]
     IN /\ reminders' = [reminders EXCEPT ![rem.id] = newData]
        /\ history' = recordHistory(history, rem.id, "updated", Some(rem),
                                    Some(newData), "agent")
        /\ nextId' = nextId

\* DeleteOptions: one reminder by id, or every reminder of a status
DeleteOptions(id, permanent, status) ==
  [id |-> id, permanent |-> permanent, status |-> status]

\* coreDelete(db, opts): the bulk form writes no history
coreDelete(o) ==
  IF o.status # NULL
  THEN LET rows == {id \in DOMAIN reminders : reminders[id].status = Val(o.status)}
       IN /\ reminders' =
               IF o.permanent
               THEN [id \in DOMAIN reminders \ rows |-> reminders[id]]
               ELSE [id \in DOMAIN reminders |->
                       IF id \in rows
                       THEN [reminders[id] EXCEPT !.status = "deleted",
                                                  !.updated_at = dtToIso(clock)]
                       ELSE reminders[id]]
          /\ UNCHANGED <<history, nextId>>
  ELSE /\ o.id # NULL
       /\ findReminder(reminders, Val(o.id)) # NULL
       /\ LET rem == reminders[Val(findReminder(reminders, Val(o.id)))]
              newData == [rem EXCEPT !.status = "deleted",
                                     !.updated_at = dtToIso(clock)]
          IN IF o.permanent
             THEN /\ reminders' = [id \in DOMAIN reminders \ {rem.id} |-> reminders[id]]
                  /\ history' = recordHistory(history, rem.id, "deleted", Some(rem),
                                              NULL, "agent")
                  /\ nextId' = nextId
             ELSE /\ reminders' = [reminders EXCEPT ![rem.id] = newData]
                  /\ history' = recordHistory(history, rem.id, "deleted", Some(rem),
                                              Some(newData), "agent")
                  /\ nextId' = nextId

\* coreUndo(db, historyId): every column goes back to the entry's old_data;
\* a history id is the entry's position
coreUndo(historyId) ==
  /\ historyId \in DOMAIN history
  /\ history[historyId].action # "created"
  /\ history[historyId].old_data # NULL
  /\ LET hist == history[historyId]
         found == findReminder(reminders, IdText(hist.reminder_id, TRUE))
         old == IF found = NULL THEN Val(hist.old_data)
                ELSE [Val(hist.old_data) EXCEPT !.updated_at = dtToIso(clock)]
     IN /\ reminders' = IF found = NULL THEN (old.id :> old) @@ reminders
                        ELSE [reminders EXCEPT ![hist.reminder_id] = old]
        /\ history' = recordHistory(history, hist.reminder_id, "reverted",
                                    IF found = NULL THEN NULL
                                    ELSE Some(reminders[hist.reminder_id]),
                                    Some(old), "agent")
        /\ nextId' = nextId

----------------------------------------------------------------------------
(* watch.ts *)

DEDUP_COOLDOWN_MS == 5 * 60 * 1000
DEFAULT_GC_INTERVAL_MS == 24 * 60 * 60 * 1000

\* variant: the boundary now - last = cooldownMs is still inside the cooldown
shouldNotify_Strict(lastNotified, reminderId, now, cooldownMs) ==
  IF reminderId \notin DOMAIN lastNotified THEN TRUE
  ELSE now - lastNotified[reminderId] > cooldownMs

shouldNotify(lastNotified, reminderId, now, cooldownMs) ==
  IF reminderId \notin DOMAIN lastNotified THEN TRUE
  ELSE now - lastNotified[reminderId] >= cooldownMs

markNotified(lastNotified, reminderId, now) == (reminderId :> now) @@ lastNotified

\* resolveOnFirePreset: the command of a known preset; throws otherwise
resolveOnFirePreset(preset) ==
  IF preset = "openclaw" THEN [threw |-> FALSE, command |-> Some("openclaw cron add")]
  ELSE [threw |-> TRUE, command |-> NULL]

Event(e, id) == [e |-> e, id |-> id]

\* variant: without the inner try, a failure to write the log escapes
executeOnFire_LogEscapes(rem, run, logFails) ==
  IF run = "exit0"
  THEN [ok |-> TRUE, threw |-> FALSE, events |-> <<Event("hook", rem.id)>>]
  ELSE [ok |-> FALSE, threw |-> logFails,
        events |-> <<Event("hookFailed", rem.id)>>
                   \o (IF logFails THEN <<>> ELSE <<Event("hookLogged", rem.id)>>)]

\* executeOnFire(command, rem, timeoutMs).  run: what execSync does with the
\* command: "exit0", "nonzero" or "timeout" (both throw); logFails: appending
\* to on-fire.log throws.  Returns ok; never throws.
executeOnFire(rem, run, logFails) ==
  IF run = "exit0"
  THEN [ok |-> TRUE, threw |-> FALSE, events |-> <<Event("hook", rem.id)>>]
  ELSE [ok |-> FALSE, threw |-> FALSE,
        events |-> <<Event("hookFailed", rem.id)>>
                   \o (IF logFails THEN <<>> ELSE <<Event("hookLogged", rem.id)>>)]

\* variant: state.lastGc = now is assigned before coreGc is called
LastGcAfter_Early(lastGc, now, gcThrew) == now

\* variant: state.lastGc is never assigned
LastGcAfter_Stale(lastGc, now, gcThrew) == lastGc

\* state.lastGc after the try block around coreGc: the assignment follows the
\* call, so an exception skips it
LastGcAfter(lastGc, now, gcThrew) == IF gcThrew THEN lastGc ELSE now

\* variant: markNotified is called before the hook runs
RECURSIVE Dispatch_MarkBeforeHook(_, _, _, _, _, _)
Dispatch_MarkBeforeHook(included, acc, now, cooldownMs, resolvedOnFire, env) ==
  IF included = <<>> \/ acc.error # "none" THEN acc
  ELSE
    LET rem == Head(included)
        hook == executeOnFire(rem, IF env.hook = Some(rem.id) THEN env.run ELSE "exit0",
                              env.logFails)
        hooked == resolvedOnFire # NULL
        next ==
          IF shouldNotify(acc.lastNotified, rem.id, now, cooldownMs)
          THEN IF env.notify = Some(rem.id)
               THEN [acc EXCEPT !.error = "notify",
                                !.events = Append(@, Event("notifyThrew", rem.id))]
               ELSE [acc EXCEPT !.lastNotified = markNotified(@, rem.id, now),
                                !.notified = Append(@, rem.id),
                                !.delivered = @ \cup {rem.id},
                                !.events = @ \o <<Event("notify", rem.id),
                                                   Event("mark", rem.id)>>
                                             \o (IF hooked THEN hook.events ELSE <<>>)]
          ELSE [acc EXCEPT !.events = Append(@, Event("skip", rem.id))]
    IN Bind(next, LAMBDA a :
         Dispatch_MarkBeforeHook(Tail(included), a, now, cooldownMs, resolvedOnFire, env))

\* the for loop over result.included.  acc: lastNotified, notified, events,
\* delivered, error.  env.notify: the reminder for which the notify callback
\* throws; env.hook/env.run/env.logFails: the reminder whose on-fire command
\* fails, and how.
RECURSIVE Dispatch(_, _, _, _, _, _)
Dispatch(included, acc, now, cooldownMs, resolvedOnFire, env) ==
  IF included = <<>> \/ acc.error # "none" THEN acc
  ELSE
    LET rem == Head(included)
        hook == executeOnFire(rem, IF env.hook = Some(rem.id) THEN env.run ELSE "exit0",
                              env.logFails)
        hooked == resolvedOnFire # NULL
        next ==
          IF shouldNotify(acc.lastNotified, rem.id, now, cooldownMs)
          THEN IF env.notify = Some(rem.id)
               THEN [acc EXCEPT !.error = "notify",
                                !.events = Append(@, Event("notifyThrew", rem.id))]
               ELSE IF hooked /\ hook.threw
               THEN [acc EXCEPT !.error = "executeOnFire",
                                !.delivered = @ \cup {rem.id},
                                !.events = @ \o <<Event("notify", rem.id)>> \o hook.events]
               ELSE [acc EXCEPT !.lastNotified = markNotified(@, rem.id, now),
                                !.notified = Append(@, rem.id),
                                !.delivered = @ \cup {rem.id},
                                !.events = @ \o <<Event("notify", rem.id)>>
                                             \o (IF hooked THEN hook.events ELSE <<>>)
                                             \o <<Event("mark", rem.id)>>]
          ELSE [acc EXCEPT !.events = Append(@, Event("skip", rem.id))]
    IN Bind(next, LAMBDA a :
         Dispatch(Tail(included), a, now, cooldownMs, resolvedOnFire, env))

\* variant: db.close() is the last statement of the try block
closeDb_OnReturn(r) ==
  IF r.error = "none" THEN [r EXCEPT !.events = Append(@, Event("close", 0))] ELSE r

\* finally { db.close() }: r is the call's outcome when the try block is left
closeDb(r) == [r EXCEPT !.events = Append(@, Event("close", 0))]

\* variant: the loop evaluates in preview mode
WatchCheckOptions_DryRun(o) ==
  [type |-> Some({"time", "heartbeat", "session", "condition"}), text |-> NULL,
   budget |-> NULL, agent |-> o.agent, escalate |-> TRUE, dryRun |-> TRUE]

\* the options runCheckCycle passes to coreCheck
WatchCheckOptions(o) ==
  [type |-> Some({"time", "heartbeat", "session", "condition"}), text |-> NULL,
   budget |-> NULL, agent |-> o.agent, escalate |-> TRUE, dryRun |-> FALSE]

Ids(rows) == [i \in DOMAIN rows |-> rows[i].id]

\* runCheckCycle(state, opts, now) on the store (rs, h).  env: what the
\* environment does during this call.  The value describes the call's exit:
\* error = "none" is a normal return of `notified`, anything else names the
\* call whose exception propagated to the caller.
runCheckCycle(st, o, now, rs, h, env) ==
  LET preset == IF o.onFirePreset # NULL THEN resolveOnFirePreset(Val(o.onFirePreset))
                ELSE [threw |-> FALSE, command |-> o.onFire]
      quiet == [state |-> st, reminders |-> rs, history |-> h, notified |-> <<>>,
                included |-> <<>>, delivered |-> {}, events |-> <<>>,
                error |-> "none"]
      gcIntervalMs == IF o.gcIntervalMs = NULL THEN DEFAULT_GC_INTERVAL_MS
                      ELSE Val(o.gcIntervalMs)
      gcDue == now - st.lastGc >= gcIntervalMs
      cooldownMs == IF o.cooldown # NULL THEN Val(o.cooldown) * 1000
                    ELSE DEDUP_COOLDOWN_MS
      AfterGc(gc) ==
        LET lastGc == IF gcDue THEN LastGcAfter(st.lastGc, now, gc.threw)
                      ELSE st.lastGc
            gcEvents == IF ~gcDue THEN <<>>
                        ELSE IF gc.threw THEN <<Event("gcThrew", 0)>>
                        ELSE <<Event("gc", 0)>>
            events == <<Event("getDb", 0)>> \o gcEvents
            AfterCheck(res) ==
              LET loop0 == [lastNotified |-> st.lastNotified, notified |-> <<>>,
                            delivered |-> {},
                            events |-> Append(events, Event("coreCheck", 0)),
                            error |-> "none"]
                  AfterDispatch(done) ==
                    closeDb(
                      [state |-> [lastNotified |-> done.lastNotified, lastGc |-> lastGc],
                       reminders |-> res.reminders, history |-> res.history,
                       notified |-> done.notified, included |-> Ids(res.included),
                       delivered |-> done.delivered, events |-> done.events,
                       error |-> done.error])
              IN Bind(Dispatch(res.included, loop0, now, cooldownMs, preset.command, env),
                      AfterDispatch)
        IN IF env.check
           THEN closeDb([quiet EXCEPT !.state.lastGc = lastGc,
                                      !.reminders = gc.reminders,
                                      !.history = gc.history, !.error = "coreCheck",
                                      !.events = Append(events,
                                                        Event("coreCheckThrew", 0))])
           ELSE Bind(coreCheck(gc.reminders, gc.history, WatchCheckOptions(o), now,
                               env.byDue, env.cond),
                     AfterCheck)
  IN IF preset.threw THEN [quiet EXCEPT !.error = "resolveOnFirePreset"]
     ELSE IF env.open THEN [quiet EXCEPT !.error = "getDb"]
     ELSE Bind(IF gcDue THEN coreGc(rs, h, now, 30, FALSE, env.gc)
               ELSE [reminders |-> rs, history |-> h, count |-> 0, threw |-> FALSE],
               AfterGc)

----------------------------------------------------------------------------
(* check-watch.ts: the blocking wait for the next due reminder *)

POLL_INTERVAL_MS == 5000

\* The first row of
\*   SELECT * FROM reminders WHERE status = 'active' AND agent = ?
\*     AND trigger_type IN (types) AND trigger_at IS NOT NULL AND trigger_at <= now
\*   ORDER BY priority, trigger_at LIMIT 1
\* Rows equal on both sort keys come out in rowid order.
DueRows(rs, agent, types, nowIso) ==
  {id \in DOMAIN rs : /\ rs[id].status = "active"
                      /\ rs[id].agent = agent
                      /\ rs[id].trigger_type \in types
                      /\ rs[id].trigger_at # NULL
                      /\ Val(rs[id].trigger_at) <= nowIso}

FirstDue(rs, ids) ==
  CHOOSE id \in ids : \A o \in ids :
     \/ rs[id].priority < rs[o].priority
     \/ /\ rs[id].priority = rs[o].priority
        /\ Val(rs[id].trigger_at) < Val(rs[o].trigger_at)
     \/ /\ rs[id].priority = rs[o].priority
        /\ Val(rs[id].trigger_at) = Val(rs[o].trigger_at)
        /\ id <= o

\* A variant that marks the row it returns as fired, as coreCheck does.
queryDueReminder_MarksFired(rs, h, agent, types, nowIso, dbGone) ==
  IF types = {} THEN [threw |-> FALSE, row |-> NULL, reminders |-> rs, history |-> h]
  ELSE IF dbGone THEN [threw |-> TRUE, row |-> NULL, reminders |-> rs, history |-> h]
  ELSE LET ids == DueRows(rs, agent, types, nowIso) IN
       IF ids = {} THEN [threw |-> FALSE, row |-> NULL, reminders |-> rs, history |-> h]
       ELSE LET id == FirstDue(rs, ids) IN
            [threw |-> FALSE, row |-> Some(rs[id]),
             reminders |-> [rs EXCEPT ![id].fire_count = @ + 1,
                                      ![id].last_fired = Some(nowIso)],
             history |-> h]

\* queryDueReminder returns the row, or throws when the database cannot be
\* opened or read; the two tables are returned as it leaves them.
queryDueReminder(rs, h, agent, types, nowIso, dbGone) ==
  IF types = {} THEN [threw |-> FALSE, row |-> NULL, reminders |-> rs, history |-> h]
  ELSE IF dbGone THEN [threw |-> TRUE, row |-> NULL, reminders |-> rs, history |-> h]
  ELSE LET ids == DueRows(rs, agent, types, nowIso) IN
       [threw |-> FALSE,
        row |-> IF ids = {} THEN NULL ELSE Some(rs[FirstDue(rs, ids)]),
        reminders |-> rs, history |-> h]

\* CheckWatchOptions as checkWatch reads them: agent ?? 'main', the type list
\* (default ['time']), timeout in seconds turned into ms.
CheckWatchOptions(agent, types, timeout) ==
  [agent |-> IF agent = NULL THEN "main" ELSE Val(agent),
   types |-> IF types = NULL THEN {"time"} ELSE Val(types),
   timeoutMs |-> IF timeout = NULL THEN NULL ELSE Some(Val(timeout) * 1000)]

CheckWatchResult(reminder, timedOut) == [reminder |-> reminder, timedOut |-> timedOut]

\* The promise before checkWatch is called.  resolved lists every value
\* handed to resolve(); by and at record the event that did it and when.
NoCheckWatch ==
  [called |-> FALSE, settled |-> FALSE, pollTimer |-> NULL, timeoutTimer |-> NULL,
   listeners |-> FALSE, resolved |-> <<>>, by |-> "none", at |-> 0,
   opts |-> CheckWatchOptions(NULL, NULL, NULL), started |-> 0, polls |-> 0,
   lastPoll |-> 0, store |-> [reminders |-> <<>>, history |-> <<>>]]

\* A variant of done without the settled guard and without cleanup.
done_Unguarded(c, res, by, now) ==
  [c EXCEPT !.settled = TRUE, !.listeners = FALSE,
            !.resolved = Append(@, res), !.by = by, !.at = now]

\* done: the first call settles, clears both timers, removes the signal
\* listeners and resolves; every later call returns at once.
done(c, res, by, now) ==
  IF c.settled THEN c
  ELSE [c EXCEPT !.settled = TRUE, !.pollTimer = NULL, !.timeoutTimer = NULL,
                 !.listeners = FALSE, !.resolved = Append(@, res),
                 !.by = by, !.at = now]

\* poll: one query; a row settles with it, a throw settles empty.
poll(c, rs, h, now, dbGone) ==
  IF c.settled THEN [cw |-> c, reminders |-> rs, history |-> h]
  ELSE LET q == queryDueReminder(rs, h, c.opts.agent, c.opts.types, dtToIso(now), dbGone)
           p == [c EXCEPT !.lastPoll = now]
       IN [cw |-> IF q.threw THEN done(p, CheckWatchResult(NULL, FALSE), "dbGone", now)
                  ELSE IF q.row # NULL
                       THEN done(p, CheckWatchResult(q.row, FALSE), "poll", now)
                  ELSE p,
           reminders |-> q.reminders, history |-> q.history]

\* checkWatch up to the return of the promise: listeners, the optional
\* timeout timer, the immediate first poll, then the interval timer.
checkWatch(o, rs, h, now, dbGone) ==
  LET c0 == [NoCheckWatch EXCEPT !.called = TRUE, !.opts = o, !.started = now,
                                 !.listeners = TRUE,
                                 !.timeoutTimer = IF o.timeoutMs = NULL THEN NULL
                                                  ELSE Some(now + Val(o.timeoutMs)),
                                 !.store = [reminders |-> rs, history |-> h]]
      r == poll(c0, rs, h, now, dbGone)
  IN [r EXCEPT !.cw = IF r.cw.settled THEN r.cw
                      ELSE [r.cw EXCEPT !.pollTimer = Some(now + POLL_INTERVAL_MS)]]


----------------------------------------------------------------------------
(* Initial state: a freshly initialised database, no watch loop started *)

StartMs == 100 * HOUR_MS

NoResult ==
  [op |-> "none", n |-> 0, opts |-> NULL, now |-> 0, included |-> <<>>,
   overflowCounts |-> NoOverflow, totalTriggered |-> 0, totals |-> <<>>,
   candidates |-> <<>>, fires |-> <<>>]

NoPre == [reminders |-> <<>>, history |-> <<>>]

\* tick.lastNotified, tick.lastGc: WatchState as it was when the call started;
\* tick.gcThrewBefore: coreGc threw in the call before this one
NoTick ==
  [n |-> 0, now |-> 0, error |-> "none", notified |-> <<>>, included |-> <<>>,
   events |-> <<>>, lastNotified |-> <<>>, lastGc |-> 0, gcThrewBefore |-> FALSE]

WatchOptions(agent, once, onFire, onFirePreset, cooldown, gcIntervalMs) ==
  [agent |-> agent, once |-> once, onFire |-> onFire, onFirePreset |-> onFirePreset,
   cooldown |-> cooldown, gcIntervalMs |-> gcIntervalMs]

NoWatchOptions == WatchOptions(NULL, FALSE, NULL, NULL, NULL, NULL)

Init ==
  /\ reminders = <<>>
  /\ history = <<>>
  /\ nextId = 1
  /\ clock = StartMs
  /\ result = NoResult
  /\ pre = NoPre
  /\ state = [lastNotified |-> <<>>, lastGc |-> 0]
  /\ wopts = NoWatchOptions
  /\ loop = "idle"
  /\ tick = NoTick
  /\ dispatched = {}
  /\ cw = NoCheckWatch

\* AddOptions after coreAdd's defaulting (trigger || 'time', priority || 3,
\* source || 'agent', agent || 'main')
AddOptions(content, trigger, due, priority, config, decay, maxFires, recur, agent, dependsOn) ==
  [content |-> content, trigger |-> trigger, due |-> due,
   priority |-> IF priority = 0 THEN 3 ELSE priority,
   config |-> config, decay |-> decay, maxFires |-> maxFires, recur |-> recur,
   recurParent |-> NULL, dependsOn |-> dependsOn, source |-> "agent",
   agent |-> IF agent = NULL THEN "main" ELSE Val(agent)]

CheckOptions(type, text, budget, agent, escalate, dryRun) ==
  [type |-> type, text |-> text, budget |-> budget, agent |-> agent,
   escalate |-> escalate, dryRun |-> dryRun]

\* whether the time query walks idx_rem_due matters only when rows differ in it
QueryPlans(rs) ==
  IF \E a, b \in DOMAIN rs : /\ rs[a].trigger_type = "time"
                             /\ rs[b].trigger_type = "time"
                             /\ rs[a].trigger_at # rs[b].trigger_at
  THEN BOOLEAN ELSE {FALSE}

\* result.fires[id]: the evaluations so far, previews apart, that included id
FiresOf(id) == IF id \in DOMAIN result.fires THEN result.fires[id] ELSE 0

\* one coreCheck call on the store, at the current wall-clock time
Check(o) ==
  /\ \E byDue \in QueryPlans(reminders) :
     \E cond \in [DOMAIN reminders -> {"match"}] :
     \E r \in {coreCheck(reminders, history, o, clock, byDue, cond)} :
          /\ reminders' = r.reminders
          /\ history' = r.history
          /\ result' = [op |-> "check", n |-> result.n + 1, opts |-> Some(o),
                        now |-> clock, included |-> r.included,
                        overflowCounts |-> r.overflowCounts,
                        totalTriggered |-> r.totalTriggered,
                        totals |-> r.totals, candidates |-> r.candidates,
                        fires |-> [id \in DOMAIN reminders |->
                                     FiresOf(id)
                                     + (IF ~o.dryRun /\ \E i \in DOMAIN r.included :
                                                          r.included[i].id = id
                                        THEN 1 ELSE 0)]]
          /\ pre' = [reminders |-> reminders, history |-> history]
  /\ UNCHANGED <<nextId, clock>>
  /\ UNCHANGED watchVars

\* one coreComplete call; result.opts keeps the id text it was given
Complete(rid) ==
  /\ coreComplete(rid)
  /\ result' = [result EXCEPT !.op = "complete", !.opts = Some(rid), !.now = clock]
  /\ pre' = [reminders |-> reminders, history |-> history]
  /\ UNCHANGED clock
  /\ UNCHANGED watchVars

Snooze(rid, untilIso) ==
  /\ coreSnooze(rid, untilIso)
  /\ result' = [result EXCEPT !.op = "snooze", !.opts = Some(rid), !.now = clock]
  /\ pre' = [reminders |-> reminders, history |-> history]
  /\ UNCHANGED clock
  /\ UNCHANGED watchVars

Edit(rid, o) ==
  /\ coreEdit(rid, o)
  /\ result' = [result EXCEPT !.op = "edit", !.opts = Some(rid), !.now = clock]
  /\ pre' = [reminders |-> reminders, history |-> history]
  /\ UNCHANGED clock
  /\ UNCHANGED watchVars

Delete(o) ==
  /\ coreDelete(o)
  /\ result' = [result EXCEPT !.op = "delete", !.opts = Some(o), !.now = clock]
  /\ pre' = [reminders |-> reminders, history |-> history]
  /\ UNCHANGED clock
  /\ UNCHANGED watchVars

Undo(historyId) ==
  /\ coreUndo(historyId)
  /\ result' = [result EXCEPT !.op = "undo", !.opts = Some(historyId), !.now = clock]
  /\ pre' = [reminders |-> reminders, history |-> history]
  /\ UNCHANGED clock
  /\ UNCHANGED watchVars

\* the last operation was an evaluation; `result` and `pre` describe it
Checked == result.op = "check"

\* the last operation was a completion
Completed == result.op = "complete"

IncludedIds == {result.included[k].id : k \in DOMAIN result.included}

----------------------------------------------------------------------------
(* Budget allocation: reminders of every priority and of lengths below,     *)
(* between and above the per-priority caps, evaluated under small budgets   *)

Contents == {10, 250}
Budgets == {Some(0), Some(1), Some(25), Some(100)}

AddB ==
  /\ nextId <= MaxReminders
  /\ result.op = "none"
  /\ \E content \in Contents, priority \in 1..5 :
       coreAdd(AddOptions(content, "heartbeat", NULL, priority, NULL, NULL, NULL,
                          NULL, NULL, NULL))
  /\ UNCHANGED <<clock, result, pre>>
  /\ UNCHANGED watchVars

CheckB ==
  /\ result.op = "none"
  /\ \E budget \in Budgets :
       Check(CheckOptions(NULL, NULL, budget, NULL, FALSE, FALSE))

NextBudget == AddB \/ CheckB

SpecBudget == Init /\ [][NextBudget]_vars

----------------------------------------------------------------------------
(* The watch loop: startWatch on a store holding a few due reminders *)

\* the timer fires just inside the cooldown or exactly at its end
TickDeltas(cooldownMs) ==
  IF cooldownMs = 0 THEN {1000} ELSE {cooldownMs - 1, cooldownMs}
Cooldowns == {NULL, Some(0), Some(1)}
HookOptions == {<<NULL, NULL>>, <<Some("cmd"), NULL>>, <<NULL, Some("bogus")>>}

HasEvent(events, e) == \E i \in DOMAIN events : events[i].e = e

\* what the environment may do during one runCheckCycle call
Envs(rs, st, o, now) ==
  LET gcDue == now - st.lastGc >=
                 (IF o.gcIntervalMs = NULL THEN DEFAULT_GC_INTERVAL_MS
                  ELSE Val(o.gcIntervalMs))
      collectable == coreGc(rs, <<>>, now, 30, TRUE, "none").count > 0
      gcFaults == {"none"} \cup (IF gcDue THEN {"select"} ELSE {})
                           \cup (IF gcDue /\ collectable THEN {"vacuum"} ELSE {})
      condRows == {id \in DOMAIN rs : rs[id].trigger_type = "condition"}
      conds == {c \in [DOMAIN rs -> {"match", "fail"}] :
                  \A id \in DOMAIN rs \ condRows : c[id] = "match"}
      some == {Some(id) : id \in DOMAIN rs}
      base == [open |-> FALSE, check |-> FALSE, gc |-> "none", notify |-> NULL,
               hook |-> NULL, run |-> "exit0", logFails |-> FALSE, byDue |-> FALSE,
               cond |-> [id \in DOMAIN rs |-> "match"]]
      \* at most one of: the store cannot be opened, coreCheck throws, the
      \* notify callback throws for one reminder, the command fails for one
      faults == {base, [base EXCEPT !.open = TRUE], [base EXCEPT !.check = TRUE]}
                \cup {[base EXCEPT !.notify = n] : n \in some}
                \cup (IF o.onFire = NULL /\ o.onFirePreset = NULL THEN {}
                      ELSE {[base EXCEPT !.hook = k, !.run = r[1], !.logFails = r[2]] :
                              k \in some,
                              r \in {<<"nonzero", FALSE>>, <<"timeout", TRUE>>}})
  IN {[f EXCEPT !.gc = g, !.byDue = b, !.cond = c] :
        f \in faults, g \in gcFaults, b \in QueryPlans(rs), c \in conds}

\* one call runCheckCycle(state, wopts, now) and what it leaves behind
Cycle(now, env) ==
  \E r \in {runCheckCycle(state, wopts', now, reminders, history, env)} :
     /\ reminders' = r.reminders
     /\ history' = r.history
     /\ state' = r.state
     /\ tick' = [n |-> tick.n + 1, now |-> now, error |-> r.error,
                 notified |-> r.notified, included |-> r.included,
                 events |-> r.events, lastNotified |-> state.lastNotified,
                 lastGc |-> state.lastGc,
                 gcThrewBefore |-> HasEvent(tick.events, "gcThrew")]
     /\ dispatched' = dispatched \cup {<<id, now>> : id \in r.delivered}
     /\ clock' = now
     /\ UNCHANGED <<nextId, result, pre, cw>>

\* the agent adds a reminder before the loop is started; time reminders
\* first, the evaluation gathers them first whatever their ids are
AddW ==
  /\ loop = "idle"
  /\ nextId <= MaxWatchRows
  /\ \E trigger \in {"time", "condition"} :
       /\ trigger = "time" =>
            \A id \in DOMAIN reminders : reminders[id].trigger_type = "time"
       /\ coreAdd(AddOptions(10, trigger,
                             IF trigger = "time" THEN Some(dtToIso(clock - HOUR_MS))
                             ELSE NULL,
                             3,
                             IF trigger = "condition"
                             THEN Some([keywords |-> NULL, match |-> NULL,
                                        check |-> Some("cmd"), expect |-> Some("ok")])
                             ELSE NULL,
                             NULL, NULL, NULL, NULL, NULL))
  /\ UNCHANGED <<clock, result, pre>>
  /\ UNCHANGED watchVars

\* startWatch(opts): the immediate first cycle; a throw rejects the promise,
\* `once` resolves it, otherwise the interval timer is armed
StartWatch ==
  /\ loop = "idle"
  /\ \E once \in BOOLEAN, hk \in HookOptions, cooldown \in Cooldowns :
       /\ wopts' = WatchOptions(NULL, once, hk[1], hk[2], cooldown, NULL)
       /\ \E env \in Envs(reminders, state, wopts', clock) : Cycle(clock, env)
       /\ loop' = IF tick'.error # "none" THEN "rejected"
                  ELSE IF once THEN "resolved" ELSE "running"

\* the setInterval callback; an exception thrown in it is uncaught and ends
\* the process
TimerTick ==
  /\ loop = "running"
  /\ tick.n < MaxTicks
  /\ wopts' = wopts
  /\ \E d \in TickDeltas(IF wopts.cooldown # NULL THEN Val(wopts.cooldown) * 1000
                          ELSE DEDUP_COOLDOWN_MS) :
     \E env \in Envs(reminders, state, wopts, clock + d) : Cycle(clock + d, env)
  /\ loop' = IF tick'.error # "none" THEN "crashed" ELSE "running"

\* the abort signal, SIGINT or SIGTERM: clearInterval and resolve
Stop ==
  /\ loop = "running"
  /\ loop' = "resolved"
  /\ UNCHANGED <<reminders, history, nextId, clock, result, pre, state, wopts,
                 tick, dispatched, cw>>

Next == AddW \/ StartWatch \/ TimerTick \/ Stop

Spec == Init /\ [][Next]_vars

----------------------------------------------------------------------------
(* Properties of the watch loop *)

\* the cooldown of the running loop, in ms
CooldownMs ==
  IF wopts.cooldown # NULL THEN Val(wopts.cooldown) * 1000 ELSE DEDUP_COOLDOWN_MS

\* the call got as far as the for loop and the loop was not cut short
Attempted(id) ==
  \E j \in DOMAIN tick.events :
    tick.events[j].id = id /\ tick.events[j].e \in {"notify", "notifyThrew", "skip"}

C2_NothingPropagatesOutOfATick ==
  /\ tick.error \notin {"coreCheck", "notify", "executeOnFire"}
  /\ loop # "crashed"

\* C3: per-reminder failure isolation.  Every reminder a tick includes gets its
\* turn in the dispatch loop, whatever happened to the reminders before it.
C3_OthersStillDispatched ==
  (tick.n > 0 /\ HasEvent(tick.events, "coreCheck")) =>
    \A i \in DOMAIN tick.included : Attempted(tick.included[i])

\* C4: maintenance failure.  When coreGc throws, state.lastGc keeps its value,
\* the call goes on to coreCheck and, unless something else throws, through
\* the whole dispatch loop to a normal return; the call after it runs coreGc
\* again.
C4_GcFailureIsContained ==
  /\ HasEvent(tick.events, "gcThrew") =>
       /\ state.lastGc = tick.lastGc
       /\ HasEvent(tick.events, "coreCheck") \/ HasEvent(tick.events, "coreCheckThrew")
       /\ (~HasEvent(tick.events, "coreCheckThrew")
           /\ ~HasEvent(tick.events, "notifyThrew")) =>
            /\ tick.error = "none"
            /\ \A i \in DOMAIN tick.included : Attempted(tick.included[i])
  /\ (tick.gcThrewBefore /\ HasEvent(tick.events, "getDb")) =>
       HasEvent(tick.events, "gc") \/ HasEvent(tick.events, "gcThrew")

\* coreGc threw in the first call, the loop went on, the second call ran it
C4_Witness ==
  /\ tick.n = 2
  /\ tick.gcThrewBefore
  /\ HasEvent(tick.events, "gc")
  /\ tick.notified # <<>>

\* C5: a failing hook does not undo the delivery.  When the command of a
\* notified reminder fails, executeOnFire does not throw, and the reminder is
\* marked at the tick's time, counted as delivered and in the notified list.
C5_HookFailureKeepsDelivery ==
  \A i \in DOMAIN tick.events :
    tick.events[i].e = "hookFailed" =>
      LET r == tick.events[i].id
      IN /\ tick.error # "executeOnFire"
         /\ <<r, tick.now>> \in dispatched
         /\ r \in DOMAIN state.lastNotified
         /\ state.lastNotified[r] = tick.now
         /\ \E j \in DOMAIN tick.notified : tick.notified[j] = r
         /\ \E j \in DOMAIN tick.events :
              j > i /\ tick.events[j] = Event("mark", r)

\* the command failed and so did the write to the log
C5_Witness ==
  /\ HasEvent(tick.events, "hookFailed")
  /\ ~HasEvent(tick.events, "hookLogged")
  /\ tick.error = "none"

\* C21: watch-loop termination.  Once started the loop has run its immediate
\* tick; with the single-run flag startWatch has resolved after exactly that
\* tick; and once the promise has resolved (single run, abort signal, SIGINT
\* or SIGTERM) no further tick runs and the loop stays stopped.
C21_WatchTermination ==
  /\ [](loop # "idle" => tick.n >= 1)
  /\ []((loop # "idle" /\ wopts.once) => (loop = "resolved" /\ tick.n = 1))
  /\ [][loop = "resolved" => (tick' = tick /\ loop' = loop)]_vars

\* the trace entries the dispatch loop writes
DispatchEvents == {"notify", "notifyThrew", "skip", "hook", "hookFailed", "hookLogged",
                   "mark"}

\* the reminders the dispatch loop took up, in the order it took them up
RECURSIVE Turns(_)
Turns(events) ==
  IF events = <<>> THEN <<>>
  ELSE IF Head(events).e \in {"notify", "notifyThrew", "skip"}
  THEN <<Head(events).id>> \o Turns(Tail(events))
  ELSE Turns(Tail(events))

\* C32: sequential dispatch within a tick.  Nothing is dispatched before
\* coreCheck has returned; reminders are taken up one at a time in included
\* order; a notified reminder's trace is its notification, then its hook if
\* one is configured, then its cooldown mark, with nothing of another
\* reminder in between, so hooks never overlap.
C32_SequentialDispatch ==
  tick.n > 0 =>
    LET ev == tick.events
        hooked == wopts.onFire # NULL \/ wopts.onFirePreset # NULL
    IN /\ \A i \in DOMAIN ev :
            ev[i].e \in DispatchEvents => \E j \in 1..(i - 1) : ev[j].e = "coreCheck"
       /\ Turns(ev) = SubSeq(tick.included, 1, Len(Turns(ev)))
       /\ \A i \in DOMAIN ev :
            ev[i].e = "notify" =>
              \E j \in (i + 1)..Len(ev) :
                /\ ev[j] = Event("mark", ev[i].id)
                /\ hooked <=> j > i + 1
                /\ hooked => ev[i + 1].e \in {"hook", "hookFailed"}
                /\ \A k \in (i + 1)..(j - 1) :
                     /\ ev[k].id = ev[i].id
                     /\ ev[k].e \in {"hook", "hookFailed", "hookLogged"}
       /\ \A i \in DOMAIN ev :
            ev[i].e \in {"hook", "hookFailed", "hookLogged", "mark"} =>
              \E j \in 1..(i - 1) :
                /\ ev[j] = Event("notify", ev[i].id)
                /\ \A k \in (j + 1)..i : ev[k].id = ev[i].id

\* two reminders were notified in one tick, each with its hook, the first
\* one's failing
C32_Witness ==
  /\ Len(tick.notified) = 2
  /\ wopts.onFire # NULL
  /\ \E i \in DOMAIN tick.events :
       /\ tick.events[i] = Event("hookFailed", tick.notified[1])
       /\ \E j \in DOMAIN tick.events :
            j > i /\ tick.events[j] = Event("hook", tick.notified[2])

\* C33: the store handle of a tick.  A runCheckCycle call that opened the
\* store closes it exactly once, as the last thing it does, on every way out
\* (a return, or an exception of coreCheck or of the notifier); a call that
\* did not open it closes nothing.
C33_StoreClosedOnEveryExit ==
  tick.n > 0 =>
    LET ev == tick.events
        opens == {i \in DOMAIN ev : ev[i].e = "getDb"}
        closes == {i \in DOMAIN ev : ev[i].e = "close"}
    IN /\ Cardinality(opens) <= 1
       /\ opens # {} => (closes = {Len(ev)} /\ opens = {1})
       /\ opens = {} => closes = {}

\* the notifier threw after maintenance had thrown too, and the store was
\* closed
C33_Witness ==
  /\ tick.error = "notify"
  /\ HasEvent(tick.events, "gcThrew")
  /\ tick.events[Len(tick.events)].e = "close"

----------------------------------------------------------------------------
(* Preview: coreCheck with dryRun on a store whose reminders age *)

PASS_MS == 25 * HOUR_MS

AddP ==
  /\ nextId <= MaxPreviewRows
  /\ result.op = "none"
  /\ \E trigger \in {"time", "heartbeat"}, priority \in {2, 3}, decays \in BOOLEAN :
       coreAdd(AddOptions(10, trigger,
                          IF trigger = "time" THEN Some(dtToIso(clock)) ELSE NULL,
                          priority, NULL,
                          IF decays THEN Some(dtToIso(clock + HOUR_MS)) ELSE NULL,
                          NULL, NULL, NULL, NULL))
  /\ UNCHANGED <<clock, result, pre>>
  /\ UNCHANGED watchVars

\* time passes
Pass ==
  /\ result.op = "none"
  /\ clock < StartMs + MaxPasses * PASS_MS
  /\ clock' = clock + PASS_MS
  /\ UNCHANGED <<reminders, history, nextId, result, pre>>
  /\ UNCHANGED watchVars

CheckP ==
  /\ result.op = "none"
  /\ \E escalate \in BOOLEAN, dryRun \in BOOLEAN :
       Check(CheckOptions(NULL, NULL, NULL, NULL, escalate, dryRun))

NextPreview == AddP \/ Pass \/ CheckP

SpecPreview == Init /\ [][NextPreview]_vars

\* C6: preview mode is read-only.  coreCheck with dryRun leaves every reminder
\* record and the history table as they were, with or without escalate.
C6_PreviewIsReadOnly ==
  (result.op = "check" /\ Val(result.opts).dryRun) =>
    /\ reminders = pre.reminders
    /\ history = pre.history

----------------------------------------------------------------------------
(* Escalation: evaluations of a store of overdue reminders *)

SEC_MS == 1000

\* how long ago the reminder was due when it is added, in ms
Overdues ==
  {24 * HOUR_MS - SEC_MS, 24 * HOUR_MS, 48 * HOUR_MS - SEC_MS, 48 * HOUR_MS,
   50 * HOUR_MS, 72 * HOUR_MS}

AddE ==
  /\ nextId <= MaxOverdueRows
  /\ result.op = "none"
  /\ \E priority \in 1..4, overdue \in Overdues :
       coreAdd(AddOptions(10, "time", Some(dtToIso(clock - overdue)), priority, NULL,
                          NULL, NULL, NULL, NULL, NULL))
  /\ UNCHANGED <<clock, result, pre>>
  /\ UNCHANGED watchVars

CheckE ==
  /\ result.op = "none"
  /\ \E escalate \in BOOLEAN :
       Check(CheckOptions(NULL, NULL, NULL, NULL, escalate, FALSE))

NextEscalate == AddE \/ CheckE

SpecEscalate == Init /\ [][NextEscalate]_vars

\* the evaluation in `result` ran with escalation enabled
Escalated == result.op = "check" /\ Val(result.opts).escalate

\* seconds by which reminder id was overdue when the evaluation started
OverdueS(id) == dtToIso(result.now) - Val(pre.reminders[id].trigger_at)

\* the time reminders the evaluation found with priority p
TimeRowsAt(p) ==
  {id \in DOMAIN pre.reminders :
     /\ pre.reminders[id].trigger_type = "time"
     /\ pre.reminders[id].status = "active"
     /\ pre.reminders[id].priority = p}

\* C11 as stated: a priority-3 time reminder overdue by exactly 48h has
\* priority 2 after one evaluation with escalation, and a priority-3 reminder
\* reaches priority 1 in that evaluation only when overdue by 72h or more.
C11_AsStated ==
  Escalated =>
    \A id \in TimeRowsAt(3) :
      /\ OverdueS(id) = 48 * 3600 => reminders[id].priority = 2
      /\ reminders[id].priority = 1 => OverdueS(id) >= 72 * 3600

\* C11, amended: both rules run in the one evaluation, so a priority-3 time
\* reminder overdue by exactly 48h (or more) has priority 1 after it, and one
\* overdue by less than 48h keeps priority 3; priority 2 is never the result.
C11_EscalationAt48h ==
  Escalated =>
    \A id \in TimeRowsAt(3) :
      /\ OverdueS(id) >= 48 * 3600 => reminders[id].priority = 1
      /\ OverdueS(id) < 48 * 3600 => reminders[id].priority = 3

\* a priority-3 reminder overdue by exactly 48h, and one a second short of it
C11_Witness ==
  /\ Escalated
  /\ \E a, b \in TimeRowsAt(3) :
       /\ OverdueS(a) = 48 * 3600 /\ reminders[a].priority = 1
       /\ OverdueS(b) = 48 * 3600 - 1 /\ reminders[b].priority = 3

\* C12: double escalation in one pass.  A priority-3 time reminder overdue by
\* 50 hours has priority 1 after a single evaluation with escalate, and a
\* priority-2 one overdue by 24h or more has priority 1.
C12_DoubleEscalation ==
  Escalated =>
    /\ \A id \in TimeRowsAt(3) :
         OverdueS(id) = 50 * 3600 => reminders[id].priority = 1
    /\ \A id \in TimeRowsAt(2) :
         OverdueS(id) >= 24 * 3600 => reminders[id].priority = 1

\* a priority-3 reminder 50h overdue and a priority-2 one 24h overdue, both
\* raised to 1 by one evaluation
C12_Witness ==
  /\ Escalated
  /\ \E a \in TimeRowsAt(3), b \in TimeRowsAt(2) :
       /\ OverdueS(a) = 50 * 3600 /\ reminders[a].priority = 1
       /\ OverdueS(b) = 24 * 3600 /\ reminders[b].priority = 1

----------------------------------------------------------------------------
(* Life cycle: reminders with dependencies and fire caps are added,         *)
(* completed and evaluated in any order                                     *)

FireCaps == {NULL, Some(1), Some(2)}

\* the dependency texts a caller can give: an existing reminder's id, whole
\* or cut short
DependsOnTexts(rs) == {Some(IdText(d, w)) : d \in DOMAIN rs, w \in BOOLEAN}

AddL ==
  /\ nextId <= MaxLifeRows
  /\ result.n = 0
  /\ \E maxFires \in FireCaps, dependsOn \in {NULL} \cup DependsOnTexts(reminders) :
       coreAdd(AddOptions(10, "heartbeat", NULL, 1, NULL, NULL, maxFires, NULL, NULL,
                          dependsOn))
  /\ result' = [result EXCEPT !.op = "add"]
  /\ UNCHANGED <<clock, pre>>
  /\ UNCHANGED watchVars

\* the agent completes a reminder that is still active
CompleteL ==
  /\ Cardinality({i \in DOMAIN history : /\ history[i].action = "completed"
                                        /\ history[i].source = "agent"}) < MaxCompletes
  /\ \E id \in DOMAIN reminders :
       /\ reminders[id].status = "active"
       /\ Complete(IdText(id, TRUE))

CheckL ==
  /\ result.n < MaxEvals
  /\ \E dryRun \in BOOLEAN :
       Check(CheckOptions(NULL, NULL, NULL, NULL, FALSE, dryRun))

NextLife == AddL \/ CompleteL \/ CheckL

SpecLife == Init /\ [][NextLife]_vars

\* the reminder that the dependency text of rem resolved to when rem was added
DependsOn(rem) == Val(rem.depends_on).of

\* C13: dependency gating.  In every evaluation a reminder whose dependency
\* is not in status completed when the evaluation starts is absent from
\* included.
C13_DependencyGating ==
  Checked =>
    \A b \in DOMAIN pre.reminders :
      (/\ pre.reminders[b].depends_on # NULL
       /\ pre.reminders[DependsOn(pre.reminders[b])].status # "completed")
        => b \notin IncludedIds

\* an evaluation that includes a reminder and leaves out the one depending on it
C13_Witness ==
  /\ Checked
  /\ \E a, b \in DOMAIN pre.reminders :
       /\ pre.reminders[b].depends_on = Some(IdText(a, TRUE))
       /\ pre.reminders[b].status = "active"
       /\ pre.reminders[a].status = "active"
       /\ a \in IncludedIds
       /\ b \notin IncludedIds

\* C14: dependency unblocking.  Once A is completed, an active, due reminder B
\* that depends on A is included by the next evaluation.
C14_DependencyUnblocks ==
  Checked =>
    \A b \in DOMAIN pre.reminders :
      (/\ pre.reminders[b].depends_on # NULL
       /\ pre.reminders[b].status = "active"
       /\ pre.reminders[DependsOn(pre.reminders[b])].status = "completed")
        => b \in IncludedIds

\* the entries of the history table that record an automatic completion of id
AutoCompletions(id) ==
  {i \in DOMAIN history : /\ history[i].reminder_id = id
                          /\ history[i].action = "completed"
                          /\ history[i].source = "system"}

\* the agent completed id
CompletedByAgent(id) ==
  \E i \in DOMAIN history : /\ history[i].reminder_id = id
                            /\ history[i].action = "completed"
                            /\ history[i].source = "agent"

\* C15: max-fires auto-completion.  A reminder with fire cap N >= 1 is not
\* completed by the system during its first N-1 non-preview inclusions, the
\* N-th one completes it (completion time stamped, one 'completed' history
\* entry with originator system), and it is never included a further time.
C15_MaxFiresAutoCompletion ==
  \A id \in DOMAIN reminders :
    \A N \in reminders[id].max_fires :
      /\ FiresOf(id) <= N
      /\ FiresOf(id) < N =>
           /\ AutoCompletions(id) = {}
           /\ reminders[id].status = "active" \/ CompletedByAgent(id)
      /\ FiresOf(id) = N =>
           /\ reminders[id].status = "completed"
           /\ reminders[id].completed_at # NULL
           /\ Cardinality(AutoCompletions(id)) = 1
      /\ (Checked /\ ~Val(result.opts).dryRun /\ id \in IncludedIds) =>
           /\ pre.reminders[id].status = "active"
           /\ FiresOf(id) = N => reminders[id].completed_at = Some(dtToIso(result.now))
           /\ Len(history) = Len(pre.history)
                             + Cardinality({j \in IncludedIds :
                                              \E M \in reminders[j].max_fires :
                                                FiresOf(j) = M})

\* a reminder with cap 2 was included twice, the second time completed it,
\* and a third evaluation left it out
C15_Witness ==
  /\ Checked
  /\ result.n = 3
  /\ \E id \in DOMAIN reminders :
       /\ reminders[id].max_fires = Some(2)
       /\ FiresOf(id) = 2
       /\ reminders[id].status = "completed"
       /\ ~CompletedByAgent(id)
       /\ id \notin IncludedIds
       /\ ~Val(result.opts).dryRun

----------------------------------------------------------------------------
(* Recurrence: recurring reminders are added and completed, and so are      *)
(* their successors                                                         *)

\* --recur 1d, 2w, 1m, 0d
RecurRules == {RecurRule(1, "d"), RecurRule(2, "w"), RecurRule(1, "m"), RecurRule(0, "d")}

AddR ==
  /\ nextId <= MaxRecurAdds
  /\ \E trigger \in {"time", "heartbeat"}, recur \in {NULL} \cup {Some(r) : r \in RecurRules} :
       coreAdd(AddOptions(10, trigger,
                          IF trigger = "time" THEN Some(dtToIso(clock)) ELSE NULL,
                          3, NULL, NULL, NULL, recur, NULL, NULL))
  /\ result' = [result EXCEPT !.op = "add"]
  /\ UNCHANGED <<clock, pre>>
  /\ UNCHANGED watchVars

CompleteR ==
  \E id \in DOMAIN reminders, whole \in BOOLEAN :
    /\ reminders[id].status = "active"
    /\ reminders[id].recur_rule # NULL => nextId <= MaxRecurRows
    /\ Complete(IdText(id, whole))

NextRecur == AddR \/ CompleteR

SpecRecur == Init /\ [][NextRecur]_vars

\* the reminder the last completion was applied to, as it was before
CompletedRem == pre.reminders[Val(result.opts).of]

\* the rows the last operation inserted
Inserted == DOMAIN reminders \ DOMAIN pre.reminders

UnitDays(unit) == CASE unit = "d" -> 1 [] unit = "w" -> 7 [] unit = "m" -> 30

\* C16: recurrence on completion.  coreComplete marks the reminder completed;
\* with a rule {interval, unit} it creates exactly one new reminder, active,
\* fire_count 0, due at the completed reminder's due time (or now if it had
\* none) + interval x (1 | 7 | 30 days); without a rule it creates none.
C16_RecurrenceOnCompletion ==
  Completed =>
    /\ reminders[CompletedRem.id].status = "completed"
    /\ CompletedRem.recur_rule = NULL => Inserted = {}
    /\ \A rule \in CompletedRem.recur_rule :
         /\ Cardinality(Inserted) = 1
         /\ \A id \in Inserted :
              /\ reminders[id].status = "active"
              /\ reminders[id].fire_count = 0
              /\ reminders[id].trigger_at =
                   Some((IF CompletedRem.trigger_at # NULL
                         THEN Val(CompletedRem.trigger_at) ELSE dtToIso(result.now))
                        + rule.interval * UnitDays(rule.unit) * DAY_S)

\* C17: recurrence chain flattening.  The recur_parent_id of every successor
\* is the id of a chain root, a reminder that is nobody's successor, and the
\* successor made by a completion belongs to the chain of the completed one.
C17_ChainFlattening ==
  /\ \A id \in DOMAIN reminders :
       \A p \in reminders[id].recur_parent_id :
         /\ p \in DOMAIN reminders
         /\ reminders[p].recur_parent_id = NULL
  /\ Completed =>
       \A id \in Inserted :
         reminders[id].recur_parent_id =
           (IF CompletedRem.recur_parent_id = NULL THEN Some(CompletedRem.id)
            ELSE CompletedRem.recur_parent_id)

\* a root, its successor and the successor of that one, both pointing at the root
C17_Witness ==
  /\ Completed
  /\ CompletedRem.recur_parent_id # NULL
  /\ CompletedRem.recur_parent_id # Some(CompletedRem.id)
  /\ \E id \in Inserted :
       reminders[id].recur_parent_id = CompletedRem.recur_parent_id

----------------------------------------------------------------------------
(* agentrem check --watch: one blocking wait over a store filled beforehand. *)
(* Reminders due later than the call are the ones that become due while    *)
(* the wait is pending.                                                    *)

\* due dates relative to the clock, in seconds
WaitDues == {0 - 1, 3, 6}

\* --timeout values, in seconds
Timeouts == {NULL, Some(0), Some(5), Some(7), Some(12)}

AddC ==
  /\ ~cw.called
  /\ nextId <= MaxWaitRows
  /\ \E d \in WaitDues, priority \in {1, 3}, agent \in {NULL, Some("other")} :
       coreAdd(AddOptions(10, "time", Some(dtToIso(clock) + d), priority,
                          NULL, NULL, NULL, NULL, agent, NULL))
  /\ UNCHANGED <<clock, result, pre>>
  /\ UNCHANGED watchVars

CallCheckWatch ==
  /\ ~cw.called
  /\ \E timeout \in Timeouts, types \in {NULL, Some({})}, dbGone \in BOOLEAN :
     \E r \in {checkWatch(CheckWatchOptions(NULL, types, timeout),
                          reminders, history, clock, dbGone)} :
        /\ cw' = r.cw
        /\ reminders' = r.reminders
        /\ history' = r.history
  /\ UNCHANGED <<nextId, clock, result, pre, state, wopts, loop, tick, dispatched>>

\* The interval timer fires: timers run in order of expiry, and two timers
\* expiring at the same instant run in either order.
PollFires ==
  /\ cw.pollTimer # NULL
  /\ cw.polls < MaxPolls
  /\ \A t \in cw.timeoutTimer : Val(cw.pollTimer) <= t
  /\ \E dbGone \in BOOLEAN :
     \E r \in {poll(cw, reminders, history, Val(cw.pollTimer), dbGone)} :
        /\ cw' = [r.cw EXCEPT !.polls = @ + 1,
                              !.pollTimer = IF r.cw.pollTimer = NULL THEN NULL
                                            ELSE Some(Val(@) + POLL_INTERVAL_MS)]
        /\ reminders' = r.reminders
        /\ history' = r.history
  /\ clock' = Val(cw.pollTimer)
  /\ UNCHANGED <<nextId, result, pre, state, wopts, loop, tick, dispatched>>

\* The timeout timer fires, once.
TimeoutFires ==
  /\ cw.timeoutTimer # NULL
  /\ \A t \in cw.pollTimer : Val(cw.timeoutTimer) <= t
  /\ cw' = done([cw EXCEPT !.timeoutTimer = NULL], CheckWatchResult(NULL, TRUE),
                "timeout", Val(cw.timeoutTimer))
  /\ clock' = Val(cw.timeoutTimer)
  /\ UNCHANGED <<reminders, history, nextId, result, pre, state, wopts, loop, tick,
                 dispatched>>

\* SIGINT or SIGTERM reaches the process while the listeners are registered.
Signal ==
  /\ cw.listeners
  /\ \E sig \in {"SIGINT", "SIGTERM"} :
       cw' = done(cw, CheckWatchResult(NULL, FALSE), sig, clock)
  /\ UNCHANGED <<reminders, history, nextId, clock, result, pre, state, wopts, loop,
                 tick, dispatched>>

NextWait == AddC \/ CallCheckWatch \/ PollFires \/ TimeoutFires \/ Signal

SpecWait == Init /\ [][NextWait]_vars

\* rows the wait can return once they are due
Matching == {id \in DOMAIN reminders : /\ reminders[id].status = "active"
                                       /\ reminders[id].agent = cw.opts.agent
                                       /\ reminders[id].trigger_type \in cw.opts.types
                                       /\ reminders[id].trigger_at # NULL}

DueMs(rem) == Val(rem.trigger_at) * 1000

Outcome == cw.resolved[1]

\* C18: checkWatch resolves exactly once and never settles any other way; the
\* value is the one of the event that settled it: a poll that found a due
\* matching reminder gives {reminder, timedOut: false}, the timeout gives
\* {null, timedOut: true} at started + timeout, a signal gives {null, false};
\* once settled both timers are cleared and the listeners removed, so no later
\* poll, timeout or signal can run.
C18_SettlesExactlyOnce ==
  /\ Len(cw.resolved) <= 1
  /\ cw.settled <=> Len(cw.resolved) = 1
  /\ cw.settled =>
       /\ cw.pollTimer = NULL /\ cw.timeoutTimer = NULL /\ ~cw.listeners
       /\ cw.by \in {"poll", "timeout", "SIGINT", "SIGTERM", "dbGone"}
       /\ cw.by = "poll" =>
            /\ Outcome.reminder # NULL /\ ~Outcome.timedOut
            /\ Val(Outcome.reminder).id \in Matching
            /\ DueMs(Val(Outcome.reminder)) <= cw.at
       /\ cw.by = "timeout" =>
            /\ Outcome = CheckWatchResult(NULL, TRUE)
            /\ cw.opts.timeoutMs # NULL
            /\ cw.at = cw.started + Val(cw.opts.timeoutMs)
       /\ cw.by \in {"SIGINT", "SIGTERM", "dbGone"} =>
            Outcome = CheckWatchResult(NULL, FALSE)

\* a wait with a timeout armed that a later poll settled with a reminder
C18_Witness ==
  /\ cw.settled /\ cw.by = "poll" /\ cw.polls >= 1
  /\ cw.opts.timeoutMs # NULL
  /\ Outcome.reminder # NULL

\* C19: while the database stays readable, (a) a matching reminder already due
\* at the call is returned by the immediate first poll, whatever the timeout;
\* (b) the wait never times out when a matching reminder became due before the
\* timeout; (c) a reminder that becomes due while the wait is pending is
\* returned by the first poll after it, less than one poll interval later.
C19_BoundedResponse ==
  /\ (cw.called /\ cw.by # "dbGone" /\ \E id \in Matching : DueMs(reminders[id]) <= cw.started)
       => /\ cw.settled /\ cw.by = "poll" /\ cw.at = cw.started
          /\ Outcome.reminder # NULL /\ ~Outcome.timedOut
  /\ cw.by = "timeout" => \A id \in Matching : DueMs(reminders[id]) >= cw.at
  /\ (cw.called /\ ~cw.settled) => \A id \in Matching : DueMs(reminders[id]) > cw.lastPoll
  /\ (cw.by = "poll" /\ cw.at > cw.started)
       => DueMs(Val(Outcome.reminder)) > cw.at - POLL_INTERVAL_MS

\* C20: from the call on, whatever the outcome, the reminders table and the
\* history table are what they were when checkWatch was called.
C20_ReadOnly ==
  cw.called => /\ reminders = cw.store.reminders
               /\ history = cw.store.history

\* a wait over a non-empty store that a later poll settled with a reminder
C20_Witness ==
  /\ cw.settled /\ cw.by = "poll" /\ cw.polls >= 1
  /\ Len(history) > 0


----------------------------------------------------------------------------
(* Snooze and decay: due reminders, some with a decay date or a fire cap,    *)
(* are snoozed, completed and evaluated while time passes                    *)

SNOOZE_PASS_MS == 2 * HOUR_MS

\* snoozes, completions by the agent, evaluations and clock advances so far
SnoozeSteps ==
  Cardinality({i \in DOMAIN history : history[i].source = "agent"
                                      /\ history[i].action # "created"})
  + result.n + (clock - StartMs) \div SNOOZE_PASS_MS

AddZ ==
  /\ nextId <= MaxSnoozeRows
  /\ SnoozeSteps = 0
  /\ \E decay \in {NULL, Some(dtToIso(clock + SNOOZE_PASS_MS))},
        maxFires \in {NULL, Some(1)} :
       coreAdd(AddOptions(10, "time", Some(dtToIso(clock - HOUR_MS)), 1, NULL, decay,
                          maxFires, NULL, NULL, NULL))
  /\ UNCHANGED <<clock, result, pre>>
  /\ UNCHANGED watchVars

\* agentrem snooze <id> --for 1h | 3h, on a reminder of any status
SnoozeZ ==
  /\ SnoozeSteps < MaxSnoozeSteps
  /\ \E id \in DOMAIN reminders, h \in {1, 3} :
       Snooze(IdText(id, TRUE), dtToIso(clock + h * HOUR_MS))

CompleteZ ==
  /\ SnoozeSteps < MaxSnoozeSteps
  /\ \E id \in DOMAIN reminders :
       /\ reminders[id].status = "active"
       /\ Complete(IdText(id, TRUE))

CheckZ ==
  /\ SnoozeSteps < MaxSnoozeSteps
  /\ Check(CheckOptions(NULL, NULL, NULL, NULL, FALSE, FALSE))

PassZ ==
  /\ reminders # <<>>
  /\ SnoozeSteps < MaxSnoozeSteps
  /\ clock' = clock + SNOOZE_PASS_MS
  /\ UNCHANGED <<reminders, history, nextId, result, pre>>
  /\ UNCHANGED watchVars

NextSnooze == AddZ \/ SnoozeZ \/ CompleteZ \/ CheckZ \/ PassZ

SpecSnooze == Init /\ [][NextSnooze]_vars

\* the entries the last operation appended to history
Appended == SubSeq(history, Len(pre.history) + 1, Len(history))

CandidateIds == {result.candidates[i].id : i \in DOMAIN result.candidates}

\* rows of the agent of the last evaluation, as they were before it
OwnRows == {id \in DOMAIN pre.reminders :
              pre.reminders[id].agent = AgentOf(Val(result.opts))}

\* snoozed rows whose snooze had run out when the last evaluation started
SnoozeOver == {id \in OwnRows : /\ pre.reminders[id].status = "snoozed"
                                /\ Leq(pre.reminders[id].snoozed_until,
                                       dtToIso(result.now))}

\* C23: a reminder that was completed at some time is never active
\* afterwards, in any run of add, snooze, complete and check.
C23_NoWayBackFromCompleted ==
  \A id \in DOMAIN reminders :
    (\E i \in DOMAIN history : /\ history[i].reminder_id = id
                               /\ history[i].action = "completed")
      => reminders[id].status # "active"

\* a time reminder that is due at the last evaluation as far as its trigger goes
DueBefore(id) ==
  /\ pre.reminders[id].trigger_type = "time"
  /\ Leq(pre.reminders[id].trigger_at, dtToIso(result.now))
  /\ pre.reminders[id].depends_on = NULL

\* reminders snoozed until later than the last evaluation are left as they
\* were and are not candidates
LaterSnoozesStay ==
  \A id \in OwnRows \ SnoozeOver :
    pre.reminders[id].status = "snoozed"
      => reminders[id] = pre.reminders[id] /\ id \notin CandidateIds

\* C28 as stated: after an evaluation every reminder whose snooze had run
\* out is active with its snooze date cleared, and is a candidate when due.
C28_AsStated ==
  Checked =>
    /\ \A id \in SnoozeOver :
         /\ reminders[id].status = "active"
         /\ reminders[id].snoozed_until = NULL
         /\ DueBefore(id) => id \in CandidateIds
    /\ LaterSnoozesStay

\* C28: after an evaluation every reminder whose snooze had run out has its
\* snooze date cleared and is no longer snoozed.  If its decay date has
\* passed it is expired by the same call and is not a candidate; otherwise
\* it is a candidate when due, and it is active unless its inclusion reached
\* its fire cap, which completes it.  Reminders snoozed until later stay.
C28_SnoozeReactivation ==
  Checked =>
    /\ \A id \in SnoozeOver :
         /\ reminders[id].snoozed_until = NULL
         /\ IF Leq(pre.reminders[id].decay_at, dtToIso(result.now))
            THEN reminders[id].status = "expired" /\ id \notin CandidateIds
            ELSE /\ DueBefore(id) => id \in CandidateIds
                 /\ reminders[id].status =
                      IF /\ id \in IncludedIds
                         /\ ~Val(result.opts).dryRun
                         /\ capReached(pre.reminders[id],
                                       pre.reminders[id].fire_count + 1)
                      THEN "completed" ELSE "active"
    /\ LaterSnoozesStay

\* an evaluation reactivated a reminder and included it
C28_Witness ==
  /\ Checked
  /\ \E id \in SnoozeOver : /\ id \in IncludedIds
                             /\ reminders[id].status = "active"
                             /\ reminders[id].fire_count = 1

\* C29: after an evaluation every reminder of the agent that was active with
\* a decay date <= now is expired, the call appended exactly one 'expired'
\* history entry for it, and it is neither a candidate nor included.
C29_DecayExpiry ==
  Checked =>
    \A id \in OwnRows :
      (/\ pre.reminders[id].status = "active"
       /\ Leq(pre.reminders[id].decay_at, dtToIso(result.now)))
        => /\ reminders[id].status = "expired"
           /\ Cardinality({i \in DOMAIN Appended :
                              /\ Appended[i].reminder_id = id
                              /\ Appended[i].action = "expired"}) = 1
           /\ id \notin CandidateIds
           /\ id \notin IncludedIds

\* an evaluation expired a due, active reminder at its decay date
C29_Witness ==
  /\ Checked
  /\ \E id \in OwnRows : /\ pre.reminders[id].status = "active"
                          /\ pre.reminders[id].decay_at = Some(dtToIso(result.now))
                          /\ DueBefore(id)
                          /\ reminders[id].status = "expired"

----------------------------------------------------------------------------
(* The store under every operation of the agent: reminders are added,       *)
(* evaluated, completed, snoozed, edited, deleted, and history entries are   *)
(* undone                                                                    *)

\* operations after the adds: evaluations, and the agent's recorded operations
StoreSteps ==
  Cardinality({i \in DOMAIN history : history[i].source = "agent"
                                      /\ history[i].action # "created"})
  + result.n

AddS ==
  /\ nextId <= MaxStoreRows
  /\ StoreSteps = 0
  /\ \E maxFires \in {NULL, Some(1)} :
       coreAdd(AddOptions(10, "heartbeat", NULL, 1, NULL, NULL, maxFires, NULL, NULL,
                          NULL))
  /\ result' = [result EXCEPT !.op = "add"]
  /\ UNCHANGED <<clock, pre>>
  /\ UNCHANGED watchVars

CheckS ==
  /\ StoreSteps < MaxStoreSteps
  /\ \E dryRun \in BOOLEAN :
       Check(CheckOptions(NULL, NULL, NULL, NULL, FALSE, dryRun))

CompleteS ==
  /\ StoreSteps < MaxStoreSteps
  /\ \E id \in DOMAIN reminders :
       /\ reminders[id].status = "active"
       /\ Complete(IdText(id, TRUE))

SnoozeS ==
  /\ StoreSteps < MaxStoreSteps
  /\ \E id \in DOMAIN reminders :
       Snooze(IdText(id, TRUE), dtToIso(clock + HOUR_MS))

EditS ==
  /\ StoreSteps < MaxStoreSteps
  /\ \E id \in DOMAIN reminders :
     \E o \in {EditOptions(Some(2), NULL, NULL, NULL, NULL),
               EditOptions(NULL, NULL, NULL, Some(2), NULL)} :
       Edit(IdText(id, TRUE), o)

DeleteS ==
  /\ StoreSteps < MaxStoreSteps
  /\ \E permanent \in BOOLEAN :
       \/ \E id \in DOMAIN reminders :
            Delete(DeleteOptions(Some(IdText(id, TRUE)), permanent, NULL))
       \/ /\ \E id \in DOMAIN reminders : reminders[id].status = "completed"
          /\ Delete(DeleteOptions(NULL, permanent, Some("completed")))

UndoS ==
  /\ StoreSteps < MaxStoreSteps
  /\ \E historyId \in DOMAIN history : Undo(historyId)

NextStore == AddS \/ CheckS \/ CompleteS \/ SnoozeS \/ EditS \/ DeleteS \/ UndoS

SpecStore == Init /\ [][NextStore]_vars

\* C22: no operation of the store lowers the fire_count of a reminder.
C22_FireCountMonotone ==
  [][\A id \in DOMAIN reminders \cap DOMAIN reminders' :
       reminders'[id].fire_count >= reminders[id].fire_count]_vars

\* C26: audit completeness.  Every operation that changes, inserts or removes
\* a reminder record appends a history entry for that reminder, and the
\* entries already in history stay as they are, in place.
C26_AuditCompleteness ==
  [][/\ Len(history') >= Len(history)
     /\ SubSeq(history', 1, Len(history)) = history
     /\ \A id \in DOMAIN reminders \cup DOMAIN reminders' :
          (\/ id \notin DOMAIN reminders \cap DOMAIN reminders'
           \/ reminders'[id] # reminders[id])
            => \E i \in (Len(history) + 1)..Len(history') :
                 history'[i].reminder_id = id]_vars

----------------------------------------------------------------------------
(* Gathering: reminders of two agents and of several kinds, some retired by *)
(* a snooze, a completion or a deletion, evaluated for one agent and for a  *)
(* set of kinds                                                             *)

\* what a reminder is added with: trigger kind and whether it decays at once;
\* a time reminder is priority 3 and 49 hours overdue
GatherKinds == {<<"time", FALSE>>, <<"time", TRUE>>, <<"heartbeat", FALSE>>,
                <<"manual", FALSE>>}

\* --type values of agentrem check
TypeFilters == {NULL, Some({"heartbeat", "manual"})}

GatherSteps ==
  Cardinality({i \in DOMAIN history : history[i].source = "agent"
                                      /\ history[i].action # "created"})
  + result.n

AddG ==
  /\ nextId <= MaxGatherRows
  /\ GatherSteps = 0
  /\ \E kind \in GatherKinds, agent \in {NULL, Some("other")} :
       coreAdd(AddOptions(10, kind[1],
                          IF kind[1] = "time" THEN Some(dtToIso(clock - 49 * HOUR_MS))
                          ELSE NULL,
                          3, NULL,
                          IF kind[2] THEN Some(dtToIso(clock)) ELSE NULL,
                          NULL, NULL, agent, NULL))
  /\ result' = [result EXCEPT !.op = "add"]
  /\ UNCHANGED <<clock, pre>>
  /\ UNCHANGED watchVars

SnoozeG ==
  /\ GatherSteps < MaxGatherSteps
  /\ \E id \in DOMAIN reminders :
       /\ reminders[id].status = "active"
       /\ Snooze(IdText(id, TRUE), dtToIso(clock + HOUR_MS))

CompleteG ==
  /\ GatherSteps < MaxGatherSteps
  /\ \E id \in DOMAIN reminders :
       /\ reminders[id].status = "active"
       /\ Complete(IdText(id, TRUE))

DeleteG ==
  /\ GatherSteps < MaxGatherSteps
  /\ \E id \in DOMAIN reminders :
       /\ reminders[id].status = "active"
       /\ Delete(DeleteOptions(Some(IdText(id, TRUE)), FALSE, NULL))

CheckG ==
  /\ GatherSteps < MaxGatherSteps
  /\ \E type \in TypeFilters, agent \in {NULL, Some("other")} :
       Check(CheckOptions(type, NULL, NULL, agent, TRUE, FALSE))

NextGather == AddG \/ SnoozeG \/ CompleteG \/ DeleteG \/ CheckG

SpecGather == Init /\ [][NextGather]_vars

\* rows of other agents than the one of the last evaluation
ForeignRows == DOMAIN pre.reminders \ OwnRows

\* C24: agent isolation.  An evaluation for one agent leaves every reminder
\* of another agent exactly as it was, includes none of them, and appends no
\* history entry for any of them.
C24_AgentIsolation ==
  Checked =>
    \A id \in ForeignRows :
      /\ reminders[id] = pre.reminders[id]
      /\ id \notin IncludedIds
      /\ id \notin CandidateIds
      /\ \A i \in DOMAIN Appended : Appended[i].reminder_id # id

\* an evaluation escalated and included the agent's own overdue reminder and
\* left alone another agent's reminder that is overdue and past its decay date
C24_Witness ==
  /\ Checked
  /\ \E own \in OwnRows, other \in ForeignRows :
       /\ own \in IncludedIds
       /\ reminders[own].priority = 1 /\ pre.reminders[own].priority = 3
       /\ pre.reminders[other].trigger_type = "time"
       /\ pre.reminders[other].decay_at # NULL
       /\ pre.reminders[other].status = "active"

----------------------------------------------------------------------------
(* Retry: an evaluation crashes part-way and is run again at the same       *)
(* instant                                                                  *)

CrashPoints == {"reactivated", "expired", "escalated", "fired", "end"}

\* what a reminder is added with: trigger kind and fire cap; a time reminder
\* is priority 3, 49 hours overdue, and decays at once when it has a cap
RetryKinds == {<<"heartbeat", NULL>>, <<"heartbeat", Some(2)>>, <<"time", NULL>>,
               <<"time", Some(2)>>}

AddT ==
  /\ nextId <= MaxRetryRows
  /\ result.op \in {"none", "add"}
  /\ \E kind \in RetryKinds :
       coreAdd(AddOptions(10, kind[1],
                          IF kind[1] = "time" THEN Some(dtToIso(clock - 49 * HOUR_MS))
                          ELSE NULL,
                          IF kind[1] = "time" THEN 3 ELSE 1, NULL,
                          IF kind[1] = "time" /\ kind[2] # NULL THEN Some(dtToIso(clock))
                          ELSE NULL,
                          kind[2], NULL, NULL, NULL))
  /\ result' = [result EXCEPT !.op = "add"]
  /\ UNCHANGED <<clock, pre>>
  /\ UNCHANGED watchVars

\* the options runCheckCycle evaluates with
RetryOptions == CheckOptions(NULL, NULL, NULL, NULL, TRUE, FALSE)

\* the process dies inside coreCheck
CrashT ==
  /\ result.op = "add"
  /\ \E at \in CrashPoints :
     \E r \in {coreCheckCrashed(reminders, history, RetryOptions, clock, FALSE,
                                [id \in DOMAIN reminders |-> "match"], at)} :
        /\ reminders' = r.reminders
        /\ history' = r.history
        /\ result' = [result EXCEPT !.op = "crashed", !.opts = Some(at), !.now = clock]
  /\ pre' = [reminders |-> reminders, history |-> history]
  /\ UNCHANGED <<nextId, clock>>
  /\ UNCHANGED watchVars

\* the evaluation is run again, within the same second
RetryT ==
  /\ result.op = "crashed"
  /\ \E r \in {coreCheck(reminders, history, RetryOptions, clock, FALSE,
                         [id \in DOMAIN reminders |-> "match"])} :
        /\ reminders' = r.reminders
        /\ history' = r.history
        /\ result' = [result EXCEPT !.op = "retry", !.included = r.included,
                                    !.candidates = r.candidates]
  /\ UNCHANGED <<nextId, clock, pre>>
  /\ UNCHANGED watchVars

NextRetry == AddT \/ CrashT \/ RetryT

SpecRetry == Init /\ [][NextRetry]_vars

\* what one uninterrupted evaluation of the store before the crash leaves
Uninterrupted ==
  coreCheck(pre.reminders, pre.history, RetryOptions, result.now, FALSE,
            [id \in DOMAIN pre.reminders |-> "match"])

\* C27: idempotence on retry.  After a crash anywhere in an evaluation,
\* running the evaluation again at the same instant leaves the store as one
\* uninterrupted evaluation would have left it.
C27_IdempotentOnRetry ==
  result.op = "retry" =>
    /\ reminders = Uninterrupted.reminders
    /\ history = Uninterrupted.history

----------------------------------------------------------------------------
(* Properties of the budget allocator *)


\* candidates of priority p that the evaluation did not include
LeftOut(p) ==
  {i \in DOMAIN result.candidates :
     result.candidates[i].priority = p /\ result.candidates[i].id \notin IncludedIds}

\* the running total before the k-th inclusion
TotalBefore(k) == IF k = 1 THEN 0 ELSE result.totals[k - 1]

\* content length cut to the cap of priority p, plus the 30-char overhead
Contributed(rem, cap) == Min(rem.content, cap) + 30

\* C7: every due priority-1 candidate is in included, for every budget and
\* every mix of other candidates, and its size (content cut to 200 chars,
\* plus 30) is added to the running total.
C7_CriticalAlwaysIncluded ==
  Checked =>
    /\ \A i \in DOMAIN result.candidates :
         result.candidates[i].priority = 1 => result.candidates[i].id \in IncludedIds
    /\ \A k \in DOMAIN result.included :
         result.included[k].priority = 1 =>
           result.totals[k] = TotalBefore(k) + Contributed(result.included[k], 200)

\* a priority-1 reminder is included although the total already exceeds the
\* whole ceiling, next to a priority-2 candidate that overflowed
C7_Witness ==
  /\ Checked
  /\ result.opts = Some(CheckOptions(NULL, NULL, Some(1), NULL, FALSE, FALSE))
  /\ Len(result.included) = 2
  /\ \A k \in DOMAIN result.included : result.included[k].priority = 1
  /\ result.totals[2] = 270
  /\ result.overflowCounts[2] = 1

\* C8: a priority-5 reminder is never in included, for any budget, and no
\* overflowCounts entry counts it: every entry counts exactly the left-out
\* candidates of its own priority below 5, and entry 5 stays 0.
C8_SomedayNeverIncludedNorCounted ==
  Checked =>
    /\ \A k \in DOMAIN result.included : result.included[k].priority # 5
    /\ \A p \in 1..5 :
         result.overflowCounts[p] = IF p = 5 THEN 0 ELSE Cardinality(LeftOut(p))

\* two priority-5 candidates were due (counted in totalTriggered) beside an
\* included one
C8_Witness ==
  /\ Checked
  /\ Cardinality(LeftOut(5)) = 2
  /\ result.totalTriggered = 3
  /\ Len(result.included) = 1
  /\ result.overflowCounts = NoOverflow

\* C9: a due priority-4 candidate is never in included and each one adds
\* exactly one to overflowCounts[4], for any budget.
C9_LowAlwaysOverflows ==
  Checked =>
    /\ \A k \in DOMAIN result.included : result.included[k].priority # 4
    /\ result.overflowCounts[4] =
         Cardinality({i \in DOMAIN result.candidates : result.candidates[i].priority = 4})

\* two priority-4 candidates overflow under the largest budget while a
\* priority-3 one is included
C9_Witness ==
  /\ Checked
  /\ result.opts = Some(CheckOptions(NULL, NULL, Some(100), NULL, FALSE, FALSE))
  /\ result.overflowCounts[4] = 2
  /\ Len(result.included) = 1
  /\ result.included[1].priority = 3

\* C10: for a caller-specified budget of b units the ceiling is 4*b chars; an
\* included priority-2 reminder leaves the running total <= 60% of the
\* ceiling, an included priority-3 one <= 85%, each inclusion adds
\* min(content length, cap) + 30, and a priority-2/3 candidate that is not
\* included is counted in overflowCounts of its priority.
C10_BudgetThresholds ==
  (Checked /\ Val(result.opts).budget # NULL) =>
    LET ceiling == 4 * Val(Val(result.opts).budget)
    IN /\ \A k \in DOMAIN result.included :
            LET rem == result.included[k]
            IN /\ rem.priority = 2 =>
                    /\ 10 * result.totals[k] <= 6 * ceiling
                    /\ result.totals[k] = TotalBefore(k) + Contributed(rem, 100)
               /\ rem.priority = 3 =>
                    /\ 100 * result.totals[k] <= 85 * ceiling
                    /\ result.totals[k] = TotalBefore(k) + Contributed(rem, 60)
       /\ \A p \in {2, 3} : result.overflowCounts[p] = Cardinality(LeftOut(p))

\* C25: greedy tier closing.  Within priority 2, and within priority 3, once a
\* candidate is left out every later candidate of that priority in the same
\* evaluation is left out too, however small it is.
C25_GreedyTierClosing ==
  Checked =>
    \A i, j \in DOMAIN result.candidates :
      (/\ i < j
       /\ result.candidates[i].priority \in {2, 3}
       /\ result.candidates[j].priority = result.candidates[i].priority
       /\ result.candidates[i].id \notin IncludedIds)
        => result.candidates[j].id \notin IncludedIds

----------------------------------------------------------------------------
(* Maintenance: the watch loop on a store that holds completed, capped and   *)
(* dependent reminders, some of them a month old when the loop starts        *)

MONTH_S == 30 * DAY_S

GcIntervals == {NULL, Some(2000)}
MaintCooldowns == {Some(0), Some(2)}
MaintDeltas == {1000, 2000}

\* the agent adds a heartbeat reminder, with or without a fire cap, depending
\* on an earlier reminder or on none
AddM ==
  /\ loop = "idle"
  /\ result.op \in {"none", "add"}
  /\ nextId <= MaxMaintRows
  /\ \E maxFires \in {NULL, Some(2)},
        dependsOn \in {NULL} \cup {Some(IdText(d, TRUE)) : d \in DOMAIN reminders} :
       coreAdd(AddOptions(10, "heartbeat", NULL, 3, NULL, NULL, maxFires, NULL, NULL,
                          dependsOn))
  /\ result' = [result EXCEPT !.op = "add"]
  /\ UNCHANGED <<clock, pre>>
  /\ UNCHANGED watchVars

\* the agent completes one of them
CompleteM ==
  /\ loop = "idle"
  /\ result.op = "add"
  /\ \E id \in DOMAIN reminders : Complete(IdText(id, TRUE))

\* a row whose instants all lie s seconds earlier
Aged(rem, s) ==
  [rem EXCEPT !.trigger_at = {v - s : v \in @}, !.snoozed_until = {v - s : v \in @},
              !.decay_at = {v - s : v \in @}, !.last_fired = {v - s : v \in @},
              !.completed_at = {v - s : v \in @},
              !.created_at = @ - s, !.updated_at = @ - s]

\* a month goes by before the loop is started.  A month of milliseconds is
\* beyond the integers of the model checker, so instead of the clock moving
\* a month on, every instant in the store moves a month back: the code only
\* compares instants with each other and with the clock
PassM ==
  /\ loop = "idle"
  /\ reminders # <<>>
  /\ result.op \in {"add", "complete"}
  /\ reminders' = [id \in DOMAIN reminders |-> Aged(reminders[id], MONTH_S)]
  /\ history' = [i \in DOMAIN history |->
                   [history[i] EXCEPT !.old_data = {Aged(r, MONTH_S) : r \in @},
                                      !.new_data = {Aged(r, MONTH_S) : r \in @}]]
  /\ result' = [result EXCEPT !.op = "pass"]
  /\ UNCHANGED <<nextId, clock, pre>>
  /\ UNCHANGED watchVars

\* during a call the store may fail to open and coreGc's first statement may
\* throw
MaintEnvs(st, o, now) ==
  LET gcDue == now - st.lastGc >=
                 (IF o.gcIntervalMs = NULL THEN DEFAULT_GC_INTERVAL_MS
                  ELSE Val(o.gcIntervalMs))
  IN {[open |-> open, check |-> FALSE, gc |-> g, notify |-> NULL, hook |-> NULL,
       run |-> "exit0", logFails |-> FALSE, byDue |-> FALSE,
       cond |-> [id \in DOMAIN reminders |-> "match"]] :
        open \in BOOLEAN,
        g \in {"none"} \cup (IF gcDue THEN {"select"} ELSE {})}

StartWatchM ==
  /\ loop = "idle"
  /\ reminders # <<>>
  /\ \E cooldown \in MaintCooldowns, gcIntervalMs \in GcIntervals :
       /\ wopts' = WatchOptions(NULL, FALSE, NULL, NULL, cooldown, gcIntervalMs)
       /\ \E env \in MaintEnvs(state, wopts', clock) : Cycle(clock, env)
       /\ loop' = IF tick'.error # "none" THEN "rejected" ELSE "running"

TimerTickM ==
  /\ loop = "running"
  /\ tick.n < MaxMaintTicks
  /\ wopts' = wopts
  /\ \E d \in MaintDeltas :
     \E env \in MaintEnvs(state, wopts, clock + d) : Cycle(clock + d, env)
  /\ loop' = IF tick'.error # "none" THEN "crashed" ELSE "running"

NextMaint == AddM \/ CompleteM \/ PassM \/ StartWatchM \/ TimerTickM

SpecMaint == Init /\ [][NextMaint]_vars

\* the maintenance interval of the running loop, in ms
GcIntervalMs ==
  IF wopts.gcIntervalMs = NULL THEN DEFAULT_GC_INTERVAL_MS ELSE Val(wopts.gcIntervalMs)

\* C31: maintenance scheduling.  A tick at time now that has its store runs
\* coreGc exactly when now - lastGc >= the interval (lastGc absent is 0, so
\* the first tick runs it); a run that returns sets lastGc = now, any other
\* tick leaves lastGc alone, so two runs that returned are at least one
\* interval apart.
C31_MaintenanceScheduling ==
  tick.n > 0 =>
    LET due == tick.now - tick.lastGc >= GcIntervalMs
        ran == HasEvent(tick.events, "gc")
        threw == HasEvent(tick.events, "gcThrew")
    IN /\ HasEvent(tick.events, "getDb") => ((ran \/ threw) <=> due)
       /\ ~HasEvent(tick.events, "getDb") => (~ran /\ ~threw)
       /\ ran => state.lastGc = tick.now
       /\ ~ran => state.lastGc = tick.lastGc
       /\ (ran /\ tick.lastGc # 0) => tick.now - tick.lastGc >= GcIntervalMs
       /\ (tick.n = 1 /\ HasEvent(tick.events, "getDb")) => (ran \/ threw)

\* the third tick runs maintenance exactly one interval after the first did,
\* the second having left it alone
C31_Witness ==
  /\ tick.n = 3
  /\ wopts.gcIntervalMs = Some(2000)
  /\ HasEvent(tick.events, "gc")
  /\ tick.lastGc # 0
  /\ tick.now - tick.lastGc = 2000

\* C36: maintenance never removes live work.  Every reminder a tick removes
\* from the store was completed, expired or deleted and last updated at
\* least 30 days before the tick; an active or snoozed one is never removed.
C36_MaintenanceKeepsLiveWork ==
  [][tick' # tick =>
       \A id \in DOMAIN reminders \ DOMAIN reminders' :
         /\ reminders[id].status \in {"completed", "expired", "deleted"}
         /\ reminders[id].status \notin {"active", "snoozed"}
         /\ reminders[id].updated_at <= dtToIso(tick'.now) - 30 * DAY_S]_vars

\* maintenance ran and removed a reminder while an active one, a month old
\* as well, is still there
C36_Witness ==
  /\ HasEvent(tick.events, "gc")
  /\ \E id \in 1..(nextId - 1) : id \notin DOMAIN reminders
  /\ \E id \in DOMAIN reminders :
       /\ reminders[id].status = "active"
       /\ reminders[id].updated_at <= dtToIso(tick.now) - 30 * DAY_S

\* C38: in the watch loop a reminder is never notified more often than the
\* pipeline has counted a fire for it (the store of this loop starts with
\* every fire_count at 0), so a reminder with fire cap N gets at most N
\* notifications.
C38_DispatchWithinFireCount ==
  \A id \in DOMAIN reminders :
    LET n == Cardinality({d \in dispatched : d[1] = id})
    IN /\ n <= reminders[id].fire_count
       /\ \A m \in reminders[id].max_fires : m # 0 => n <= m

\* a reminder capped at two fires was notified twice and is completed
C38_Witness ==
  \E id \in DOMAIN reminders :
    /\ reminders[id].max_fires = Some(2)
    /\ Cardinality({d \in dispatched : d[1] = id}) = 2
    /\ reminders[id].status = "completed"

\* C39: dependency satisfaction is permanent.  A tick that evaluates the
\* store includes every active heartbeat reminder whose dependency was
\* completed when the tick began, maintenance or not.
C39_DependencyStaysSatisfied ==
  [][(tick' # tick /\ HasEvent(tick'.events, "coreCheck")) =>
       \A b \in DOMAIN reminders :
         (/\ reminders[b].status = "active"
          /\ reminders[b].trigger_type = "heartbeat"
          /\ reminders[b].depends_on # NULL
          /\ Val(reminders[b].depends_on).whole
          /\ Val(reminders[b].depends_on).of \in completedIds(reminders))
           => \E i \in DOMAIN tick'.included : tick'.included[i] = b]_vars


\* C34: count conservation.  totalTriggered is the number of distinct due
\* candidates before trimming (here every active heartbeat reminder of the
\* store, priorities 4 and 5 included), and included plus the overflow counts
\* of priorities 2, 3 and 4 plus the priority-5 candidates add up to it;
\* overflowCounts[1] and overflowCounts[5] are 0.
C34_CountConservation ==
  Checked =>
    LET due == {id \in DOMAIN pre.reminders :
                  /\ pre.reminders[id].status = "active"
                  /\ pre.reminders[id].trigger_type = "heartbeat"}
        someday == {id \in due : pre.reminders[id].priority = 5}
    IN /\ result.totalTriggered = Cardinality(due)
       /\ {result.candidates[i].id : i \in DOMAIN result.candidates} = due
       /\ Len(result.included) + result.overflowCounts[2] + result.overflowCounts[3]
            + result.overflowCounts[4] + Cardinality(someday)
          = result.totalTriggered
       /\ result.overflowCounts[1] = 0
       /\ result.overflowCounts[5] = 0

\* three candidates: one included, one of priority 3 left out, one of
\* priority 5
C34_Witness ==
  /\ Checked
  /\ result.totalTriggered = 3
  /\ Len(result.included) = 1
  /\ result.overflowCounts[3] = 1
  /\ \E i \in DOMAIN result.candidates : result.candidates[i].priority = 5

----------------------------------------------------------------------------
(* Recurrence chains: recurring reminders, some with a fire cap, are         *)
(* evaluated and completed, completed ones included                          *)

\* completions by the agent and evaluations so far
ChainSteps ==
  Cardinality({i \in DOMAIN history : /\ history[i].action = "completed"
                                      /\ history[i].source = "agent"})
  + result.n

AddK ==
  /\ ChainSteps = 0
  /\ nextId < MaxChainRows
  /\ \E maxFires \in {NULL, Some(1)}, recur \in {NULL, Some(RecurRule(1, "d"))} :
       coreAdd(AddOptions(10, "heartbeat", NULL, 3, NULL, NULL, maxFires, recur, NULL,
                          NULL))
  /\ result' = [result EXCEPT !.op = "add"]
  /\ UNCHANGED <<clock, pre>>
  /\ UNCHANGED watchVars

CheckK ==
  /\ ChainSteps < MaxChainSteps
  /\ reminders # <<>>
  /\ Check(CheckOptions(NULL, NULL, NULL, NULL, FALSE, FALSE))

\* agentrem complete <id>, whatever the status of the reminder
CompleteK ==
  /\ ChainSteps < MaxChainSteps
  /\ \E id \in DOMAIN reminders :
       /\ reminders[id].recur_rule # NULL => nextId <= MaxChainRows
       /\ Complete(IdText(id, TRUE))

NextChain == AddK \/ CheckK \/ CompleteK

SpecChain == Init /\ [][NextChain]_vars

\* C35: evaluation never schedules recurrence.  coreCheck creates no
\* reminder, not even when it auto-completes a recurring one through its
\* fire cap; a reminder with a recur_parent_id only ever appears in a
\* complete operation.
C35_CheckCreatesNoReminder ==
  [][/\ result'.n # result.n =>
          /\ DOMAIN reminders' = DOMAIN reminders
          /\ nextId' = nextId
          /\ \A i \in (Len(history) + 1)..Len(history') : history'[i].action # "created"
     /\ \A id \in DOMAIN reminders' \ DOMAIN reminders :
          reminders'[id].recur_parent_id # NULL => result'.op = "complete"]_vars

\* the evaluation auto-completed a recurring reminder at its fire cap
C35_Witness ==
  /\ Checked
  /\ \E id \in DOMAIN reminders :
       /\ pre.reminders[id].status = "active"
       /\ reminders[id].status = "completed"
       /\ reminders[id].recur_rule # NULL
       /\ reminders[id].max_fires = Some(reminders[id].fire_count)

\* the members of the recurrence chain rooted at `root`
Chain(root) ==
  {root} \cup {id \in DOMAIN reminders : reminders[id].recur_parent_id = Some(root)}

\* C40: one live occurrence per recurrence chain.  A chain, the root and the
\* reminders whose recur_parent_id is the root, never holds more than one
\* reminder that is not completed.
C40_OneLiveOccurrence ==
  \A root \in DOMAIN reminders :
    (reminders[root].recur_rule # NULL /\ reminders[root].recur_parent_id = NULL) =>
      Cardinality({id \in Chain(root) : reminders[id].status # "completed"}) <= 1

----------------------------------------------------------------------------
(* Two evaluators on one store: the watch loop's ticks and an agentrem check *)
(* of another process.  better-sqlite3 runs each statement of coreCheck in   *)
(* its own implicit transaction, so the other process can run between the   *)
(* statements that read the candidates and the statements that write the    *)
(* fire counts                                                              *)

RaceOptions == CheckOptions(NULL, NULL, NULL, NULL, FALSE, FALSE)

\* evaluations begun and ticks run so far
RaceSteps == result.n + tick.n + (IF result.op = "reading" THEN 1 ELSE 0)

AddX ==
  /\ RaceSteps = 0
  /\ nextId <= MaxRaceRows
  /\ \E maxFires \in {NULL, Some(1), Some(2)} :
       coreAdd(AddOptions(10, "heartbeat", NULL, 3, NULL, NULL, maxFires, NULL, NULL,
                          NULL))
  /\ result' = [result EXCEPT !.op = "add"]
  /\ UNCHANGED <<clock, pre>>
  /\ UNCHANGED watchVars

\* agentrem check, up to the end of the budget loop: the statements of steps
\* 1 to 3 have run and `included` holds the rows as they were read
CheckReadX ==
  /\ RaceSteps < MaxRaceSteps
  /\ result.op # "reading"
  /\ reminders # <<>>
  /\ \E cond \in {[id \in DOMAIN reminders |-> "match"]} :
     \E r \in {coreCheck(reminders, history, RaceOptions, clock, FALSE, cond)},
        w \in {coreCheckCrashed(reminders, history, RaceOptions, clock, FALSE, cond,
                                "escalated")} :
       /\ reminders' = w.reminders
       /\ history' = w.history
       /\ result' = [result EXCEPT !.op = "reading", !.opts = Some(RaceOptions),
                                   !.now = clock, !.included = r.included,
                                   !.overflowCounts = r.overflowCounts,
                                   !.totalTriggered = r.totalTriggered,
                                   !.totals = r.totals, !.candidates = r.candidates]
       /\ pre' = [reminders |-> reminders, history |-> history]
  /\ UNCHANGED <<nextId, clock>>
  /\ UNCHANGED watchVars

\* the same call's fire-count loop, over the rows as they were read
CheckWriteX ==
  /\ result.op = "reading"
  /\ \E r \in {FireCounts(result.included, reminders, history, dtToIso(result.now))} :
       /\ reminders' = r.reminders
       /\ history' = r.history
  /\ result' = [result EXCEPT !.op = "check", !.n = @ + 1,
                              !.fires = [id \in DOMAIN reminders |->
                                           FiresOf(id)
                                           + (IF \E i \in DOMAIN result.included :
                                                   result.included[i].id = id
                                              THEN 1 ELSE 0)]]
  /\ UNCHANGED <<nextId, clock, pre>>
  /\ UNCHANGED watchVars

\* a tick of the watch loop of the other process, a second later; the loop
\* notifies without cooldown, so `dispatched` records every inclusion of a tick
TickX ==
  /\ RaceSteps < MaxRaceSteps
  /\ reminders # <<>>
  /\ wopts' = WatchOptions(NULL, FALSE, NULL, NULL, Some(0), NULL)
  /\ loop' = "running"
  /\ \E env \in {[open |-> FALSE, check |-> FALSE, gc |-> "none", notify |-> NULL,
                  hook |-> NULL, run |-> "exit0", logFails |-> FALSE, byDue |-> FALSE,
                  cond |-> [id \in DOMAIN reminders |-> "match"]]} :
       Cycle(clock + 1000, env)

NextRace == AddX \/ CheckReadX \/ CheckWriteX \/ TickX

SpecRace == Init /\ [][NextRace]_vars

\* the evaluations, of either process, that included reminder id
Inclusions(id) == FiresOf(id) + Cardinality({d \in dispatched : d[1] = id})

\* C37: concurrent evaluators lose no fire-count update.  Whenever no
\* evaluation is under way, the fire_count of a reminder is the number of
\* evaluations that included it, and a reminder with fire cap N was included
\* by at most N evaluations.
C37_NoLostFireCount ==
  result.op # "reading" =>
    \A id \in DOMAIN reminders :
      /\ reminders[id].fire_count = Inclusions(id)
      /\ \A m \in reminders[id].max_fires : m # 0 => Inclusions(id) <= m

====
